---- MODULE Spec2Model ----
(***************************************************************************)
(* Model of the MCP AI summary demo: the sensitive-field masking engine    *)
(* (src/src/security.py), its configuration (src/src/config.py) and the    *)
(* server paths that put data into a prompt (src/src/server.py,            *)
(* src/src/data_source.py, src/src/prompts.py).                            *)
(*                                                                         *)
(* Python values are tagged records:                                       *)
(*   None   [k |-> "null"]                                                 *)
(*   str    [k |-> "str",  s |-> <<characters>>]                           *)
(*   int    [k |-> "int",  n |-> integer]                                  *)
(*   bool   [k |-> "bool", b |-> BOOLEAN]                                  *)
(*   float  [k |-> "float", n |-> integer]        (the float n.0)          *)
(*   list   [k |-> "list", elems |-> <<values>>]                           *)
(*   dict   [k |-> "dict", pairs |-> << <<key, value>>, ... >>]            *)
(* A Python string is a sequence of one-character strings; a dict keeps    *)
(* its pairs in insertion order, as Python dicts do.                       *)
(***************************************************************************)
EXTENDS Integers, Sequences, FiniteSets, TLC

VARIABLES settings, data_masker, masker, ctor_arg, db, pc, call,
          threads, locals, _summaries, log, clock

\* the calls running concurrently on data_masker and their local variables
thread_vars == <<threads, locals>>

\* the SummaryModel of the console application, the calls made on it so far
\* and the clock datetime.now() reads
mvp_vars == <<_summaries, log, clock>>

vars == <<settings, data_masker, masker, ctor_arg, db, pc, call, thread_vars, mvp_vars>>

(***************************************************************************)
(* Bounds of the model.                                                    *)
(***************************************************************************)
\* nesting depth of the structured values handed to mask_dict
MaxDepth == 4
\* longest list of records handed to mask_list
MaxLen == 2
\* number of threads calling the shared masker at the same time
MaxThreads == 2
\* number of add_summary and clear_summaries calls made on the SummaryModel
MaxOps == 3

(***************************************************************************)
(* Characters and strings.                                                 *)
(***************************************************************************)
UpperLetters ==
    <<"A", "B", "C", "D", "E", "F", "G", "H", "I", "J", "K", "L", "M",
      "N", "O", "P", "Q", "R", "S", "T", "U", "V", "W", "X", "Y", "Z">>

LowerLetters ==
    <<"a", "b", "c", "d", "e", "f", "g", "h", "i", "j", "k", "l", "m",
      "n", "o", "p", "q", "r", "s", "t", "u", "v", "w", "x", "y", "z">>

DigitChars == <<"0", "1", "2", "3", "4", "5", "6", "7", "8", "9">>

Range(f) == {f[i] : i \in DOMAIN f}

Letters == Range(UpperLetters) \cup Range(LowerLetters)

Digits == Range(DigitChars)

\* the characters str.strip() removes and the regex class \s matches
Whitespace == {" ", "\t", "\n", "\r"}

\* str.lower() on one character
LowerChar(c) ==
    IF \E i \in DOMAIN UpperLetters : UpperLetters[i] = c
    THEN LowerLetters[CHOOSE i \in DOMAIN UpperLetters : UpperLetters[i] = c]
    ELSE c

\* str.lower()
lower(s) == [i \in 1..Len(s) |-> LowerChar(s[i])]

\* "*" * n
Stars(n) == [i \in 1..n |-> "*"]

\* the Python slice s[a-1:b] for 1 <= a, b <= Len(s); empty when a > b
Slice(s, a, b) == [i \in 1..(IF b >= a THEN b - a + 1 ELSE 0) |-> s[a + i - 1]]

\* sub in s
Contains(sub, s) ==
    \E p \in 0..(Len(s) - Len(sub)) :
        \A i \in 1..Len(sub) : s[p + i] = sub[i]

\* str.strip()
strip(s) ==
    LET keep == {i \in 1..Len(s) : s[i] \notin Whitespace}
    IN  IF keep = {} THEN <<>>
        ELSE Slice(s, CHOOSE i \in keep : \A j \in keep : i <= j,
                      CHOOSE i \in keep : \A j \in keep : i >= j)

\* str.split(","): the pieces between commas; "" gives [""]
RECURSIVE split_from(_, _, _)
split_from(s, start, i) ==
    IF i > Len(s) THEN <<Slice(s, start, Len(s))>>
    ELSE IF s[i] = "," THEN <<Slice(s, start, i - 1)>> \o split_from(s, i + 1, i + 1)
    ELSE split_from(s, start, i + 1)

split(s) == split_from(s, 1, 1)

\* re.sub(r"[-\s]", "", value)
strip_separators(value) ==
    SelectSeq(value, LAMBDA c : c # "-" /\ c \notin Whitespace)

\* decimal digits of a natural number
RECURSIVE nat_str(_)
nat_str(n) ==
    IF n < 10 THEN <<DigitChars[n + 1]>>
    ELSE nat_str(n \div 10) \o <<DigitChars[(n % 10) + 1]>>

(***************************************************************************)
(* Python values.                                                          *)
(***************************************************************************)
PyNone == [k |-> "null"]

PyStr(s) == [k |-> "str", s |-> s]

PyInt(n) == [k |-> "int", n |-> n]

PyBool(b) == [k |-> "bool", b |-> b]

PyFloat(n) == [k |-> "float", n |-> n]

PyList(elems) == [k |-> "list", elems |-> elems]

PyDict(pairs) == [k |-> "dict", pairs |-> pairs]

\* ", ".join(parts)
RECURSIVE join_comma(_)
join_comma(parts) ==
    IF Len(parts) = 0 THEN <<>>
    ELSE IF Len(parts) = 1 THEN parts[1]
    ELSE parts[1] \o <<",", " ">> \o join_comma(Tail(parts))

\* repr(v); strings here hold no quote or backslash, so repr only adds ''
RECURSIVE py_repr(_)
py_repr(v) ==
    CASE v.k = "null" -> <<"N", "o", "n", "e">>
      [] v.k = "str"  -> <<"'">> \o v.s \o <<"'">>
      [] v.k = "int"  -> IF v.n < 0 THEN <<"-">> \o nat_str(-v.n) ELSE nat_str(v.n)
      [] v.k = "float" -> nat_str(v.n) \o <<".", "0">>
      [] v.k = "bool" -> IF v.b THEN <<"T", "r", "u", "e">> ELSE <<"F", "a", "l", "s", "e">>
      [] v.k = "list" ->
            <<"[">> \o join_comma([i \in 1..Len(v.elems) |-> py_repr(v.elems[i])]) \o <<"]">>
      [] v.k = "dict" ->
            <<"{">> \o join_comma([i \in 1..Len(v.pairs) |->
                        <<"'">> \o v.pairs[i][1] \o <<"'", ":", " ">> \o py_repr(v.pairs[i][2])])
                  \o <<"}">>

\* str(v)
py_str(v) == IF v.k = "str" THEN v.s ELSE py_repr(v)

(***************************************************************************)
(* Settings (src/src/config.py).  The fields the masker reads.             *)
(***************************************************************************)
\* the default of Settings.masked_fields
DefaultMaskedFields ==
    <<"e", "m", "a", "i", "l", ",", "p", "h", "o", "n", "e", ",", "s", "s", "n", ",",
      "c", "r", "e", "d", "i", "t", "_", "c", "a", "r", "d", ",",
      "p", "a", "s", "s", "w", "o", "r", "d">>

\* the values the environment can give Settings.masked_fields in this model
MaskedFieldsSettings ==
    { DefaultMaskedFields,
      <<>>,
      <<"E", "m", "a", "i", "l", ",", " ", "S", "S", "N">> }

\* Settings(): both fields come from the environment, with their defaults
Settings ==
    [enable_data_masking : BOOLEAN, masked_fields : MaskedFieldsSettings]

\* Settings.masked_fields_list
masked_fields_list(self) ==
    LET parts == split(self.masked_fields)
    IN  [i \in 1..Len(parts) |-> lower(strip(parts[i]))]

(***************************************************************************)
(* DataMasker (src/src/security.py).                                       *)
(***************************************************************************)
F_email == <<"e", "m", "a", "i", "l">>

F_phone == <<"p", "h", "o", "n", "e">>

F_credit_card == <<"c", "r", "e", "d", "i", "t", "_", "c", "a", "r", "d">>

F_ssn == <<"s", "s", "n">>

\* DataMasker.__init__: masked_fields is None or a list of strings; the
\* instance keeps the strings as character sequences.
\* "masked_fields or settings.masked_fields_list": None and [] are falsy.
DataMasker(masked_fields, cfg) ==
    [masked_fields |->
        IF masked_fields.k = "null" \/ Len(masked_fields.elems) = 0
        THEN masked_fields_list(cfg)
        ELSE [i \in 1..Len(masked_fields.elems) |-> masked_fields.elems[i].s],
     enabled |-> cfg.enable_data_masking]

\* self.patterns, in the dict's insertion order
patterns_reversed ==
    << [name |-> F_ssn,         pattern |-> "ssn",         mask_func |-> "ssn"],
       [name |-> F_credit_card, pattern |-> "credit_card", mask_func |-> "credit_card"],
       [name |-> F_phone,       pattern |-> "phone",       mask_func |-> "phone"],
       [name |-> F_email,       pattern |-> "email",       mask_func |-> "email"] >>

patterns ==
    << [name |-> F_email,       pattern |-> "email",       mask_func |-> "email"],
       [name |-> F_phone,       pattern |-> "phone",       mask_func |-> "phone"],
       [name |-> F_credit_card, pattern |-> "credit_card", mask_func |-> "credit_card"],
       [name |-> F_ssn,         pattern |-> "ssn",         mask_func |-> "ssn"] >>

\* [a-zA-Z0-9._%+-]
EmailLocalClass == Letters \cup Digits \cup {".", "_", "%", "+", "-"}

\* [a-zA-Z0-9.-]
EmailDomainClass == Letters \cup Digits \cup {".", "-"}

\* [-\s]
SeparatorClass == {"-"} \cup Whitespace

\* re.match(r"[a-zA-Z0-9._%+-]+@[a-zA-Z0-9.-]+\.[a-zA-Z]{2,}", s): some
\* prefix of s is local part, "@", domain part, ".", two letters
match_email(s) ==
    \E i \in 1..Len(s) :
        /\ \A p \in 1..i : s[p] \in EmailLocalClass
        /\ i + 1 <= Len(s)
        /\ s[i + 1] = "@"
        /\ \E j \in (i + 2)..Len(s) :
              /\ \A p \in (i + 2)..j : s[p] \in EmailDomainClass
              /\ j + 3 <= Len(s)
              /\ s[j + 1] = "."
              /\ s[j + 2] \in Letters
              /\ s[j + 3] \in Letters

\* a prefix match, from position pos, of digit groups g[idx..] with an optional
\* separator between consecutive groups: \d{lo,hi}[-\s]?\d{lo,hi}...
RECURSIVE match_groups(_, _, _, _)
match_groups(s, pos, g, idx) ==
    \E c \in g[idx][1]..g[idx][2] :
        /\ pos + c - 1 <= Len(s)
        /\ \A p \in pos..(pos + c - 1) : s[p] \in Digits
        /\ \/ idx = Len(g)
           \/ /\ idx < Len(g)
              /\ \E sep \in 0..1 :
                    /\ sep = 1 => (pos + c <= Len(s) /\ s[pos + c] \in SeparatorClass)
                    /\ match_groups(s, pos + c + sep, g, idx + 1)

\* re.match(pattern, str_value) for the four patterns of self.patterns
re_match(pattern, s) ==
    CASE pattern = "email"       -> match_email(s)
      [] pattern = "phone"       -> match_groups(s, 1, <<<<2, 4>>, <<3, 4>>, <<3, 4>>>>, 1)
      [] pattern = "credit_card" -> match_groups(s, 1, <<<<4, 4>>, <<4, 4>>, <<4, 4>>, <<4, 4>>>>, 1)
      [] pattern = "ssn"         -> match_groups(s, 1, <<<<3, 3>>, <<2, 2>>, <<4, 4>>>>, 1)

\* DataMasker._mask_email
_mask_email_short_local_kept(value) ==
    IF \E i \in 1..Len(value) : value[i] = "@"
    THEN LET at == CHOOSE i \in 1..Len(value) :
                       value[i] = "@" /\ \A j \in (i + 1)..Len(value) : value[j] # "@"
             local == Slice(value, 1, at - 1)
             domain == Slice(value, at + 1, Len(value))
             masked_local ==
                 IF Len(local) >= 2
                 THEN <<local[1]>> \o Stars(Len(local) - 2) \o <<local[Len(local)]>>
                 ELSE Stars(Len(local))
         IN  masked_local \o <<"@">> \o domain
    ELSE value

_mask_email(value) ==
    IF \E i \in 1..Len(value) : value[i] = "@"
    THEN LET at == CHOOSE i \in 1..Len(value) :
                       value[i] = "@" /\ \A j \in (i + 1)..Len(value) : value[j] # "@"
             local == Slice(value, 1, at - 1)
             domain == Slice(value, at + 1, Len(value))
             masked_local ==
                 IF Len(local) > 2
                 THEN <<local[1]>> \o Stars(Len(local) - 2) \o <<local[Len(local)]>>
                 ELSE Stars(Len(local))
         IN  masked_local \o <<"@">> \o domain
    ELSE value

\* DataMasker._mask_phone
_mask_phone(value) ==
    LET digits == strip_separators(value)
    IN  IF Len(digits) >= 4
        THEN Slice(digits, 1, 2) \o Stars(Len(digits) - 4)
                 \o Slice(digits, Len(digits) - 1, Len(digits))
        ELSE Stars(Len(digits))

\* DataMasker._mask_credit_card
_mask_credit_card_head_kept(value) ==
    LET digits == strip_separators(value)
    IN  IF Len(digits) >= 4
        THEN Slice(digits, 1, 4) \o Stars(Len(digits) - 4)
        ELSE Stars(Len(digits))

_mask_credit_card(value) ==
    LET digits == strip_separators(value)
    IN  IF Len(digits) >= 4
        THEN Stars(Len(digits) - 4) \o Slice(digits, Len(digits) - 3, Len(digits))
        ELSE Stars(Len(digits))

\* DataMasker._mask_ssn
_mask_ssn_prefix_dropped(value) ==
    LET digits == strip_separators(value)
    IN  Slice(digits, IF Len(digits) > 4 THEN Len(digits) - 3 ELSE 1, Len(digits))

\* DataMasker._mask_ssn; [-4:] of a shorter string is the whole string
_mask_ssn(value) ==
    LET digits == strip_separators(value)
    IN  <<"*", "*", "*", "-", "*", "*", "-">>
            \o Slice(digits, IF Len(digits) > 4 THEN Len(digits) - 3 ELSE 1, Len(digits))

\* DataMasker._mask_generic
_mask_generic_pair_kept(value) ==
    IF Len(value) < 2
    THEN Stars(Len(value))
    ELSE <<value[1]>> \o Stars(Len(value) - 2) \o <<value[Len(value)]>>

_mask_generic(value) ==
    IF Len(value) <= 2
    THEN Stars(Len(value))
    ELSE <<value[1]>> \o Stars(Len(value) - 2) \o <<value[Len(value)]>>

\* mask_func(str_value) for the functions held in self.patterns
apply_mask_func(mask_func, str_value) ==
    CASE mask_func = "email"       -> _mask_email(str_value)
      [] mask_func = "phone"       -> _mask_phone(str_value)
      [] mask_func = "credit_card" -> _mask_credit_card(str_value)
      [] mask_func = "ssn"         -> _mask_ssn(str_value)

\* the loop of mask_value over self.patterns.items() from position idx, and
\* the generic mask after it
RECURSIVE mask_by_pattern_no_fallback(_, _, _)
mask_by_pattern_no_fallback(field_lower, str_value, idx) ==
    IF idx > Len(patterns) THEN str_value
    ELSE IF /\ Contains(patterns[idx].name, field_lower)
            /\ re_match(patterns[idx].pattern, str_value)
         THEN apply_mask_func(patterns[idx].mask_func, str_value)
         ELSE mask_by_pattern_no_fallback(field_lower, str_value, idx + 1)

RECURSIVE mask_by_pattern(_, _, _)
mask_by_pattern(field_lower, str_value, idx) ==
    IF idx > Len(patterns) THEN _mask_generic(str_value)
    ELSE IF /\ Contains(patterns[idx].name, field_lower)
            /\ re_match(patterns[idx].pattern, str_value)
         THEN apply_mask_func(patterns[idx].mask_func, str_value)
         ELSE mask_by_pattern(field_lower, str_value, idx + 1)

\* "any(masked in field_lower for masked in self.masked_fields)"
should_mask(self, field_lower) ==
    \E i \in 1..Len(self.masked_fields) : Contains(self.masked_fields[i], field_lower)

\* DataMasker.mask_value
mask_value_always_enabled(self, field_name, value) ==
    IF value = PyNone THEN value
    ELSE IF ~should_mask(self, lower(field_name)) THEN value
    ELSE PyStr(mask_by_pattern(lower(field_name), py_str(value), 1))

mask_value(self, field_name, value) ==
    IF ~self.enabled \/ value = PyNone THEN value
    ELSE IF ~should_mask(self, lower(field_name)) THEN value
    ELSE PyStr(mask_by_pattern(lower(field_name), py_str(value), 1))

\* what a call that raised AttributeError yields
AttributeError == [k |-> "raise", exc |-> "AttributeError"]

\* DataMasker.mask_dict
RECURSIVE mask_dict_elements_kept(_, _)
mask_dict_elements_kept(self, data) ==
    IF data.k # "dict" THEN AttributeError
    ELSE
    PyDict([i \in 1..Len(data.pairs) |->
        LET key == data.pairs[i][1]
            value == data.pairs[i][2]
        IN  <<key,
              IF value.k = "dict" THEN mask_dict_elements_kept(self, value)
              ELSE IF value.k = "list"
                   THEN PyList([j \in 1..Len(value.elems) |->
                            IF value.elems[j].k = "dict"
                            THEN mask_dict_elements_kept(self, value.elems[j])
                            ELSE value.elems[j]])
                   ELSE mask_value(self, key, value)>>])

\* DataMasker.mask_dict; "data.items()" raises AttributeError when data is not
\* a dict
RECURSIVE mask_dict(_, _)
mask_dict(self, data) ==
    IF data.k # "dict" THEN AttributeError
    ELSE
    PyDict([i \in 1..Len(data.pairs) |->
        LET key == data.pairs[i][1]
            value == data.pairs[i][2]
        IN  <<key,
              IF value.k = "dict" THEN mask_dict(self, value)
              ELSE IF value.k = "list"
                   THEN PyList([j \in 1..Len(value.elems) |->
                            IF value.elems[j].k = "dict"
                            THEN mask_dict(self, value.elems[j])
                            ELSE mask_value(self, key, value.elems[j])])
                   ELSE mask_value(self, key, value)>>])

\* DataMasker.mask_list; the comprehension stops at the first item whose
\* mask_dict raises
mask_list(self, data) ==
    IF \E i \in 1..Len(data.elems) : mask_dict(self, data.elems[i]) = AttributeError
    THEN AttributeError
    ELSE PyList([i \in 1..Len(data.elems) |-> mask_dict(self, data.elems[i])])

(***************************************************************************)
(* The inputs of the model.                                                *)
(***************************************************************************)
F_Email == <<"E", "m", "a", "i", "l">>

F_contact_email == <<"c", "o", "n", "t", "a", "c", "t", "_", "e", "m", "a", "i", "l">>

F_password == <<"p", "a", "s", "s", "w", "o", "r", "d">>

F_name == <<"n", "a", "m", "e">>

F_ssn_phone == <<"s", "s", "n", "_", "p", "h", "o", "n", "e">>

F_data == <<"d", "a", "t", "a">>

\* the field names given to mask_value
FieldNames ==
    { F_email, F_Email, F_contact_email, F_phone, F_credit_card, F_ssn,
      F_password, F_name, F_ssn_phone, F_data }

V_zhang == <<"z", "h", "a", "n", "g", "@", "c", "o", "m", "p", "a", "n", "y", ".", "c", "o", "m">>

V_zhang_junk == V_zhang \o <<" ", "j", "u", "n", "k">>

V_li == <<"l", "i", "@", "c", "o", ".", "c", "o", "m">>

V_no_tld == <<"x", "@", "y">>

V_phone == <<"0", "9", "1", "2", "-", "3", "4", "5", "-", "6", "7", "8">>

V_card == <<"1", "2", "3", "4", "-", "5", "6", "7", "8", "-", "9", "0", "1", "2", "-", "3", "4", "5", "6">>

V_ssn == <<"1", "2", "3", "-", "4", "5", "-", "6", "7", "8", "9">>

V_nine_digits == <<"1", "2", "3", "4", "5", "6", "7", "8", "9">>

V_ssn_junk == V_ssn \o <<" ", "j", "u", "n", "k">>

V_phone_ext == V_phone \o <<" ", "e", "x", "t">>

V_Wang == <<"W", "a", "n", "g">>

V_secret == <<"s", "e", "c", "r", "e", "t">>

V_starred == <<"a", "*", "b">>

\* the scalar values given to mask_value
Scalars ==
    { PyNone,
      PyStr(V_zhang), PyStr(V_zhang_junk), PyStr(V_li), PyStr(V_no_tld),
      PyStr(V_phone), PyStr(V_card), PyStr(V_ssn), PyStr(V_nine_digits),
      PyStr(V_ssn_junk), PyStr(V_phone_ext),
      PyStr(V_Wang), PyStr(V_secret), PyStr(V_starred), PyStr(<<"a", "b">>), PyStr(<<"a">>), PyStr(<<>>),
      PyInt(85000), PyInt(7), PyInt(-5), PyFloat(85000), PyBool(TRUE) }

\* the masked_fields arguments given to the DataMasker constructor
ConstructorArgs ==
    { PyNone, PyList(<<>>), PyList(<<PyStr(F_email)>>), PyList(<<PyStr(F_Email)>>) }

\* the strings given to the five strategies: those of Scalars, and strings
\* around the length tests of the strategies
StrategyInputs ==
    { v.s : v \in { x \in Scalars : x.k = "str" } }
        \cup { <<"@", "x">>, <<"a", "@", "b">>, <<"a", "b", "c", "@", "d">>,
               <<"a", "@", "b", "@", "c">>, <<"a", "b", "c">>,
               <<"1", "2", "3">>, <<"1", "-", "2", " ", "3">>, <<"1", "2", "3", "4">>,
               <<"1", "2", "-", "3", "4", "5">>, <<"-">> }

\* the scalar leaves, the keys and the filler of the structured values
Leaves == { PyNone, PyStr(V_li), PyInt(7) }

Keys == { F_email, F_name }

Filler == PyStr(V_Wang)

\* the sequences that hold v, alone or after a filler
ListsOf(v) == { PyList(<<v>>), PyList(<<Filler, v>>) }

\* the mappings that hold v under a key
DictsOf(v) == { PyDict(<<<<key, v>>>>) : key \in Keys }

\* the structured values nested at most d deep
RECURSIVE Values(_)
Values(d) ==
    IF d = 0 THEN Leaves \cup { PyList(<<>>), PyDict(<<>>) }
    ELSE LET inner == Values(d - 1)
         IN  Values(0) \cup UNION { ListsOf(v) \cup DictsOf(v) : v \in inner }

\* the records given to mask_dict: a value under a key, alone or after a
\* filler under a sensitive key
RecordsOf(v) == DictsOf(v) \cup { PyDict(<<<<F_email, Filler>>, <<F_name, v>>>>) }

\* records with a sequence of mixed elements, two of them equal, under a key
SequenceRecords ==
    { PyDict(<<<<key, PyList(<<PyStr(V_li), PyDict(<<<<F_email, PyStr(V_li)>>>>),
                               PyNone, PyInt(7), PyStr(V_li)>>)>>>>) : key \in Keys }

Records == SequenceRecords \cup UNION { RecordsOf(v) : v \in Values(MaxDepth - 1) }

\* the lists of records given to mask_list
SmallRecords == UNION { RecordsOf(v) : v \in Leaves }

RECURSIVE SeqsUpTo(_, _)
SeqsUpTo(S, n) ==
    IF n = 0 THEN { <<>> }
    ELSE LET shorter == SeqsUpTo(S, n - 1)
         IN  shorter \cup { Append(q, x) : q \in { r \in shorter : Len(r) = n - 1 }, x \in S }

RecordLists == { PyList(q) : q \in SeqsUpTo(SmallRecords, MaxLen) }

(***************************************************************************)
(* The state machine.                                                      *)
(***************************************************************************)
NoCall == [op |-> "none"]

NoDatabase == [tables |-> "missing"]

\* the threads that call data_masker.mask_dict
Threads == 1..MaxThreads

\* a thread outside mask_dict, and the local variables of a call not yet made
IdleThread == [pc |-> "idle"]

NoLocals == [i |-> 0, result |-> <<>>]

\* module import: settings = Settings() (config.py:75) and
\* data_masker = DataMasker() (security.py:143)
Init ==
    /\ settings \in Settings
    /\ data_masker = DataMasker(PyNone, settings)
    /\ masker = data_masker
    /\ ctor_arg = PyNone
    /\ db = NoDatabase
    /\ pc = "idle"
    /\ call = NoCall
    /\ threads = [t \in Threads |-> IdleThread]
    /\ locals = [t \in Threads |-> NoLocals]
    /\ _summaries = <<>>
    /\ log = <<>>
    /\ clock = 0

\* masker = DataMasker(masked_fields); ctor_arg keeps the argument
Construct ==
    /\ pc = "idle"
    /\ db = NoDatabase
    /\ \E masked_fields \in ConstructorArgs :
          /\ masked_fields # ctor_arg
          /\ masker' = DataMasker(masked_fields, settings)
          /\ ctor_arg' = masked_fields
    /\ UNCHANGED <<settings, data_masker, db, pc, call, thread_vars, mvp_vars>>

\* masker.mask_value(field_name, value)
MaskValue ==
    /\ pc = "idle"
    /\ db = NoDatabase
    /\ \E field_name \in FieldNames, value \in Scalars :
          call' = [op |-> "mask_value", field_name |-> field_name, value |-> value,
                   result |-> mask_value(masker, field_name, value)]
    /\ pc' = "returned"
    /\ UNCHANGED <<settings, data_masker, masker, ctor_arg, db, thread_vars, mvp_vars>>

\* masker.mask_dict(data)
MaskDict ==
    /\ pc = "idle"
    /\ db = NoDatabase
    /\ \E data \in Records :
          call' = [op |-> "mask_dict", data |-> data, result |-> mask_dict(masker, data)]
    /\ pc' = "returned"
    /\ UNCHANGED <<settings, data_masker, masker, ctor_arg, db, thread_vars, mvp_vars>>

\* masker.mask_list(data)
MaskList ==
    /\ pc = "idle"
    /\ db = NoDatabase
    /\ \E data \in RecordLists :
          call' = [op |-> "mask_list", data |-> data, result |-> mask_list(masker, data)]
    /\ pc' = "returned"
    /\ UNCHANGED <<settings, data_masker, masker, ctor_arg, db, thread_vars, mvp_vars>>

\* masker._mask_email(value)
MaskEmail ==
    /\ pc = "idle"
    /\ db = NoDatabase
    /\ \E value \in StrategyInputs :
          call' = [op |-> "_mask_email", value |-> value, result |-> _mask_email(value)]
    /\ pc' = "returned"
    /\ UNCHANGED <<settings, data_masker, masker, ctor_arg, db, thread_vars, mvp_vars>>

\* masker._mask_phone(value)
MaskPhone ==
    /\ pc = "idle"
    /\ db = NoDatabase
    /\ \E value \in StrategyInputs :
          call' = [op |-> "_mask_phone", value |-> value, result |-> _mask_phone(value)]
    /\ pc' = "returned"
    /\ UNCHANGED <<settings, data_masker, masker, ctor_arg, db, thread_vars, mvp_vars>>

\* masker._mask_credit_card(value)
MaskCreditCard ==
    /\ pc = "idle"
    /\ db = NoDatabase
    /\ \E value \in StrategyInputs :
          call' = [op |-> "_mask_credit_card", value |-> value, result |-> _mask_credit_card(value)]
    /\ pc' = "returned"
    /\ UNCHANGED <<settings, data_masker, masker, ctor_arg, db, thread_vars, mvp_vars>>

\* masker._mask_ssn(value)
MaskSsn ==
    /\ pc = "idle"
    /\ db = NoDatabase
    /\ \E value \in StrategyInputs :
          call' = [op |-> "_mask_ssn", value |-> value, result |-> _mask_ssn(value)]
    /\ pc' = "returned"
    /\ UNCHANGED <<settings, data_masker, masker, ctor_arg, db, thread_vars, mvp_vars>>

\* masker._mask_generic(value)
MaskGeneric ==
    /\ pc = "idle"
    /\ db = NoDatabase
    /\ \E value \in StrategyInputs :
          call' = [op |-> "_mask_generic", value |-> value, result |-> _mask_generic(value)]
    /\ pc' = "returned"
    /\ UNCHANGED <<settings, data_masker, masker, ctor_arg, db, thread_vars, mvp_vars>>

\* the caller takes the result
Return ==
    /\ pc = "returned"
    /\ pc' = "idle"
    /\ call' = NoCall
    /\ UNCHANGED <<settings, data_masker, masker, ctor_arg, db, thread_vars, mvp_vars>>

(***************************************************************************)
(* The database (src/src/data_source.py).  The sample rows are those of    *)
(* _insert_sample_data, their Chinese text written in Latin letters.       *)
(***************************************************************************)
C_budget == <<"b", "u", "d", "g", "e", "t">>

C_department == <<"d", "e", "p", "a", "r", "t", "m", "e", "n", "t">>

C_description == <<"d", "e", "s", "c", "r", "i", "p", "t", "i", "o", "n">>

C_email == <<"e", "m", "a", "i", "l">>

C_end_date == <<"e", "n", "d", "_", "d", "a", "t", "e">>

C_hire_date == <<"h", "i", "r", "e", "_", "d", "a", "t", "e">>

C_id == <<"i", "d">>

C_manager_id == <<"m", "a", "n", "a", "g", "e", "r", "_", "i", "d">>

C_name == <<"n", "a", "m", "e">>

C_phone == <<"p", "h", "o", "n", "e">>

C_position == <<"p", "o", "s", "i", "t", "i", "o", "n">>

C_salary == <<"s", "a", "l", "a", "r", "y">>

C_start_date == <<"s", "t", "a", "r", "t", "_", "d", "a", "t", "e">>

C_status == <<"s", "t", "a", "t", "u", "s">>

SampleEmployees ==
    <<
      PyDict(<<
        <<C_id, PyInt(1)>>,
        <<C_name, PyStr(<<"Z", "h", "a", "n", "g">>)>>,
        <<C_email, PyStr(<<"z", "h", "a", "n", "g", "@", "c", "o", "m", "p", "a", "n", "y", ".", "c", "o", "m">>)>>,
        <<C_department, PyStr(<<"R", "D">>)>>,
        <<C_position, PyStr(<<"S", "e", "n", "i", "o", "r", " ", "E", "n", "g", "i", "n", "e", "e", "r">>)>>,
        <<C_salary, PyFloat(85000)>>,
        <<C_hire_date, PyStr(<<"2", "0", "2", "0", "-", "0", "3", "-", "1", "5">>)>>,
        <<C_phone, PyStr(<<"0", "9", "1", "2", "-", "3", "4", "5", "-", "6", "7", "8">>)>>>>),
      PyDict(<<
        <<C_id, PyInt(2)>>,
        <<C_name, PyStr(<<"L", "i">>)>>,
        <<C_email, PyStr(<<"l", "i", "@", "c", "o", "m", "p", "a", "n", "y", ".", "c", "o", "m">>)>>,
        <<C_department, PyStr(<<"H", "R">>)>>,
        <<C_position, PyStr(<<"M", "a", "n", "a", "g", "e", "r">>)>>,
        <<C_salary, PyFloat(95000)>>,
        <<C_hire_date, PyStr(<<"2", "0", "1", "8", "-", "0", "7", "-", "0", "1">>)>>,
        <<C_phone, PyStr(<<"0", "9", "2", "3", "-", "4", "5", "6", "-", "7", "8", "9">>)>>>>),
      PyDict(<<
        <<C_id, PyInt(3)>>,
        <<C_name, PyStr(<<"W", "a", "n", "g">>)>>,
        <<C_email, PyStr(<<"w", "a", "n", "g", "@", "c", "o", "m", "p", "a", "n", "y", ".", "c", "o", "m">>)>>,
        <<C_department, PyStr(<<"S", "a", "l", "e", "s">>)>>,
        <<C_position, PyStr(<<"S", "a", "l", "e", "s", " ", "R", "e", "p">>)>>,
        <<C_salary, PyFloat(65000)>>,
        <<C_hire_date, PyStr(<<"2", "0", "2", "2", "-", "0", "1", "-", "1", "0">>)>>,
        <<C_phone, PyStr(<<"0", "9", "3", "4", "-", "5", "6", "7", "-", "8", "9", "0">>)>>>>),
      PyDict(<<
        <<C_id, PyInt(4)>>,
        <<C_name, PyStr(<<"C", "h", "e", "n">>)>>,
        <<C_email, PyStr(<<"c", "h", "e", "n", "@", "c", "o", "m", "p", "a", "n", "y", ".", "c", "o", "m">>)>>,
        <<C_department, PyStr(<<"F", "i", "n", "a", "n", "c", "e">>)>>,
        <<C_position, PyStr(<<"A", "c", "c", "o", "u", "n", "t", "a", "n", "t">>)>>,
        <<C_salary, PyFloat(75000)>>,
        <<C_hire_date, PyStr(<<"2", "0", "1", "9", "-", "1", "1", "-", "2", "0">>)>>,
        <<C_phone, PyStr(<<"0", "9", "4", "5", "-", "6", "7", "8", "-", "9", "0", "1">>)>>>>),
      PyDict(<<
        <<C_id, PyInt(5)>>,
        <<C_name, PyStr(<<"L", "i", "n">>)>>,
        <<C_email, PyStr(<<"l", "i", "n", "@", "c", "o", "m", "p", "a", "n", "y", ".", "c", "o", "m">>)>>,
        <<C_department, PyStr(<<"R", "D">>)>>,
        <<C_position, PyStr(<<"T", "e", "c", "h", " ", "L", "e", "a", "d">>)>>,
        <<C_salary, PyFloat(120000)>>,
        <<C_hire_date, PyStr(<<"2", "0", "1", "7", "-", "0", "5", "-", "0", "8">>)>>,
        <<C_phone, PyStr(<<"0", "9", "5", "6", "-", "7", "8", "9", "-", "0", "1", "2">>)>>>>)
    >>

SampleProjects ==
    <<
      PyDict(<<
        <<C_id, PyInt(1)>>,
        <<C_name, PyStr(<<"S", "m", "a", "r", "t", " ", "W", "a", "r", "e", "h", "o", "u", "s", "e">>)>>,
        <<C_description, PyStr(<<"w", "a", "r", "e", "h", "o", "u", "s", "e", " ", "p", "l", "a", "t", "f", "o", "r", "m">>)>>,
        <<C_status, PyStr(<<"a", "c", "t", "i", "v", "e">>)>>,
        <<C_start_date, PyStr(<<"2", "0", "2", "4", "-", "0", "1", "-", "1", "5">>)>>,
        <<C_end_date, PyStr(<<"2", "0", "2", "4", "-", "1", "2", "-", "3", "1">>)>>,
        <<C_budget, PyFloat(2000000)>>,
        <<C_manager_id, PyInt(5)>>>>),
      PyDict(<<
        <<C_id, PyInt(2)>>,
        <<C_name, PyStr(<<"C", "R", "M", " ", "U", "p", "g", "r", "a", "d", "e">>)>>,
        <<C_description, PyStr(<<"c", "l", "o", "u", "d", " ", "C", "R", "M">>)>>,
        <<C_status, PyStr(<<"d", "o", "n", "e">>)>>,
        <<C_start_date, PyStr(<<"2", "0", "2", "3", "-", "0", "6", "-", "0", "1">>)>>,
        <<C_end_date, PyStr(<<"2", "0", "2", "4", "-", "0", "3", "-", "3", "0">>)>>,
        <<C_budget, PyFloat(800000)>>,
        <<C_manager_id, PyInt(2)>>>>),
      PyDict(<<
        <<C_id, PyInt(3)>>,
        <<C_name, PyStr(<<"M", "o", "b", "i", "l", "e", " ", "A", "p", "p">>)>>,
        <<C_description, PyStr(<<"o", "f", "f", "i", "c", "e", " ", "a", "p", "p">>)>>,
        <<C_status, PyStr(<<"p", "l", "a", "n", "n", "e", "d">>)>>,
        <<C_start_date, PyStr(<<"2", "0", "2", "5", "-", "0", "1", "-", "0", "1">>)>>,
        <<C_end_date, PyStr(<<"2", "0", "2", "5", "-", "0", "6", "-", "3", "0">>)>>,
        <<C_budget, PyFloat(1500000)>>,
        <<C_manager_id, PyInt(1)>>>>)
    >>

\* the tables before init_database: created empty, or already holding a row
EmptyTables == [employees |-> <<>>, projects |-> <<>>]

ExistingTables ==
    [employees |->
        << PyDict(<< <<C_id, PyInt(1)>>, <<C_name, PyStr(V_Wang)>>, <<C_email, PyNone>>,
                     <<C_department, PyStr(<<"R", "D">>)>>, <<C_position, PyNone>>,
                     <<C_salary, PyNone>>, <<C_hire_date, PyNone>>,
                     <<C_phone, PyStr(V_phone)>> >>) >>,
     projects |-> <<>>]

\* the columns of the two tables (CREATE TABLE, data_source.py:37-63)
Columns ==
    [employees |-> {C_id, C_name, C_email, C_department, C_position, C_salary,
                    C_hire_date, C_phone},
     projects |-> {C_id, C_name, C_description, C_status, C_start_date, C_end_date,
                   C_budget, C_manager_id}]

\* row[key] of a dict
dict_get(d, key) ==
    d.pairs[CHOOSE i \in 1..Len(d.pairs) : d.pairs[i][1] = key][2]

\* the first n elements
Take(q, n) == [i \in 1..(IF n < Len(q) THEN n ELSE Len(q)) |-> q[i]]

\* DataSourceManager.query_database: conditions is None or a dict; a condition
\* on a column the table does not have makes sqlite raise
query_database(table, conditions, limit) ==
    IF conditions.k = "dict"
       /\ \E i \in 1..Len(conditions.pairs) : conditions.pairs[i][1] \notin Columns[table]
    THEN [raised |-> TRUE]
    ELSE LET rows ==
                 IF conditions.k = "dict" /\ Len(conditions.pairs) > 0
                 THEN SelectSeq(db[table], LAMBDA row :
                          \A i \in 1..Len(conditions.pairs) :
                              /\ conditions.pairs[i][2] # PyNone
                              /\ dict_get(row, conditions.pairs[i][1]) = conditions.pairs[i][2])
                 ELSE db[table]
             results == PyList(Take(rows, limit))
         IN  [raised |-> FALSE, results |-> mask_list(data_masker, results)]

(***************************************************************************)
(* The prompt library (src/src/prompts.py).  A template is its text cut    *)
(* at the placeholders: text pieces (named, not spelled out) and           *)
(* {{variable}} pieces.                                                    *)
(***************************************************************************)
Text(t) == [seg |-> "text", s |-> t]

Var(v) == [seg |-> "var", var |-> v]

\* PromptLibrary._register_default_templates
templates ==
    << [name |-> "data_summary",
        template |-> <<Text("summarise this JSON"), Var("data"), Text("requirements")>>],
       [name |-> "employee_analysis",
        template |-> <<Text("department"), Var("department"), Text("employees"),
                       Var("employees"), Text("analysis requirements")>>],
       [name |-> "project_status",
        template |-> <<Text("projects"), Var("projects"), Text("report requirements"),
                       Var("current_date"), Text("write the report")>>],
       [name |-> "api_data_summary",
        template |-> <<Text("source"), Var("source"), Text("type"), Var("data_type"),
                       Text("raw data"), Var("data"), Text("focus"), Var("focus_areas"),
                       Text("write the summary")>>],
       [name |-> "qa_with_context",
        template |-> <<Text("available data"), Var("context_data"), Text("question"),
                       Var("question"), Text("answer requirements")>>],
       [name |-> "custom_summary",
        template |-> <<Var("custom_instructions"), Text("data"), Var("data"),
                       Text("process the data")>>] >>

\* PromptTemplate.__post_init__: the variables found in the template
template_variables(t) ==
    { t.template[i].var : i \in { j \in 1..Len(t.template) : t.template[j].seg = "var" } }

\* kwargs are a sequence of <<name, value>> with distinct names
kwargs_has(kwargs, name) == \E i \in 1..Len(kwargs) : kwargs[i][1] = name

kwargs_get(kwargs, name) ==
    kwargs[CHOOSE i \in 1..Len(kwargs) : kwargs[i][1] = name][2]

\* dict.update / item assignment: replace in place, else append
kwargs_set(kwargs, name, value) ==
    IF kwargs_has(kwargs, name)
    THEN [i \in 1..Len(kwargs) |-> IF kwargs[i][1] = name THEN <<name, value>> ELSE kwargs[i]]
    ELSE Append(kwargs, <<name, value>>)

\* dict.setdefault
kwargs_setdefault(kwargs, name, value) ==
    IF kwargs_has(kwargs, name) THEN kwargs ELSE Append(kwargs, <<name, value>>)

\* variables.update(extra)
RECURSIVE kwargs_update(_, _)
kwargs_update(kwargs, extra) ==
    IF Len(extra) = 0 THEN kwargs
    ELSE kwargs_update(kwargs_set(kwargs, extra[1][1], extra[1][2]), Tail(extra))

\* the text "{{name}}" inside a value, kept as one character of its string
Placeholder(name) == "{{" \o name \o "}}"

\* whether str(value), or the JSON text of a dict or list, holds "{{name}}"
RECURSIVE holds_placeholder(_, _)
holds_placeholder(value, name) ==
    CASE value.k = "str" -> \E i \in 1..Len(value.s) : value.s[i] = Placeholder(name)
      [] value.k = "list" ->
            \E i \in 1..Len(value.elems) : holds_placeholder(value.elems[i], name)
      [] value.k = "dict" ->
            \E i \in 1..Len(value.pairs) :
                \/ holds_placeholder(PyStr(value.pairs[i][1]), name)
                \/ holds_placeholder(value.pairs[i][2], name)
      [] OTHER -> FALSE

\* the text put in place of "{{name}}": a dict or list goes in as its JSON text
\* (kept here as the value the text denotes), anything else as str(value);
\* replaced lists the later replacements made inside this text
rendered(name, value) ==
    IF value.k \in {"dict", "list"}
    THEN [seg |-> "json", var |-> name, value |-> value, replaced |-> <<>>]
    ELSE [seg |-> "str", var |-> name, s |-> py_str(value), replaced |-> <<>>]

\* whether the text of a piece put in earlier holds "{{name}}"
piece_holds(piece, name) ==
    \/ piece.seg = "str" /\ holds_placeholder(PyStr(piece.s), name)
    \/ piece.seg = "json" /\ holds_placeholder(piece.value, name)
    \/ \E i \in 1..Len(piece.replaced) : holds_placeholder(piece.replaced[i][2], name)

\* result.replace("{{name}}", text of value): str.replace works on the whole
\* text made so far, the template's placeholders and the values already put in
str_replace(result, name, value) ==
    [i \in 1..Len(result) |->
        LET piece == result[i]
        IN  CASE piece.seg = "var" ->
                    IF piece.var = name THEN rendered(name, value) ELSE piece
              [] piece.seg = "text" -> piece
              [] OTHER ->
                    IF piece_holds(piece, name)
                    THEN [piece EXCEPT !.replaced = Append(@, <<name, value>>)]
                    ELSE piece]

\* the loop of PromptTemplate.render over kwargs.items(), in their order
RECURSIVE render_loop(_, _)
render_loop(result, kwargs) ==
    IF Len(kwargs) = 0 THEN result
    ELSE render_loop(str_replace(result, kwargs[1][1], kwargs[1][2]), Tail(kwargs))

\* PromptTemplate.render
template_render(t, kwargs) == render_loop(t.template, kwargs)

\* PromptLibrary.render
render(template_name, kwargs) ==
    IF ~\E i \in 1..Len(templates) : templates[i].name = template_name
    THEN [raised |-> "ValueError"]
    ELSE LET t == templates[CHOOSE i \in 1..Len(templates) : templates[i].name = template_name]
         IN  IF \E v \in template_variables(t) : ~kwargs_has(kwargs, v)
             THEN [raised |-> "ValueError"]
             ELSE [raised |-> "no", prompt |-> template_render(t, kwargs)]

(***************************************************************************)
(* The MCP server (src/src/server.py).                                     *)
(***************************************************************************)
\* the department / status arguments: None, "" or a value
FilterArgs == { PyNone, PyStr(<<>>), PyStr(<<"R", "D">>), PyStr(<<"d", "o", "n", "e">>) }

\* the limit arguments
Limits == { 1, 50 }

\* what json.loads makes of the data argument of generate_summary
ClientRecord == PyDict(<< <<C_name, PyStr(V_Wang)>>, <<C_email, PyStr(V_li)>> >>)

ParsedData ==
    { [ok |-> FALSE],
      [ok |-> TRUE, value |-> PyList(<<ClientRecord>>)],
      [ok |-> TRUE, value |-> ClientRecord],
      [ok |-> TRUE, value |-> PyInt(7)] }

\* what json.loads makes of extra_vars: absent, malformed, or a dict
ParsedExtra ==
    { [given |-> FALSE],
      [given |-> TRUE, ok |-> FALSE],
      [given |-> TRUE, ok |-> TRUE, value |-> << <<"department", PyStr(<<"R", "D">>)>> >>],
      [given |-> TRUE, ok |-> TRUE,
       value |-> << <<"custom_instructions", PyStr(V_secret)>>,
                    <<"data", PyList(<<ClientRecord>>)>> >>] }

TemplateNames ==
    { "data_summary", "employee_analysis", "project_status", "api_data_summary",
      "qa_with_context", "custom_summary", "no_such_template" }

\* the keyword arguments of direct calls of PromptLibrary.render, in the order
\* they are passed
RenderKwargs ==
    { <<>>,
      << <<"question", PyStr(<<"w", "h", "o">>)>> >>,
      << <<"context_data", PyList(<<ClientRecord>>)>>,
         <<"question", PyStr(<<"w", "h", "o">>)>> >>,
      << <<"context_data", PyList(<<PyStr(<<Placeholder("question")>>)>>)>>,
         <<"question", PyStr(<<"w", "h", "o">>)>> >>,
      << <<"data", ClientRecord>>, <<"unused", PyInt(7)>> >>,
      << <<"custom_instructions", PyStr(<<"g", "o">>)>>,
         <<"data", PyStr(<<Placeholder("custom_instructions")>>)>> >>,
      << <<"data", PyStr(<<Placeholder("custom_instructions")>>)>>,
         <<"custom_instructions", PyStr(<<"g", "o">>)>> >>,
      << <<"data", PyStr(<<Placeholder("data")>>)>>,
         <<"custom_instructions", PyNone>> >> }

\* datetime.now().strftime("%Y-%m-%d")
Today == PyStr(<<"2", "0", "2", "6", "-", "0", "1", "-", "0", "1">>)

\* the filters of answer_question: absent, malformed JSON, or a dict
ParsedFilters ==
    { [given |-> FALSE],
      [given |-> TRUE, ok |-> FALSE],
      [given |-> TRUE, ok |-> TRUE,
       value |-> PyDict(<< <<C_department, PyStr(<<"R", "D">>)>> >>)],
      [given |-> TRUE, ok |-> TRUE,
       value |-> PyDict(<< <<C_salary, PyInt(1)>> >>)] }

DataSourceTypes == { "employees", "projects", "api" }

Questions == { PyStr(<<"w", "h", "o">>) }

\* what the API answers to fetch_from_api: an HTTP error, or a JSON document
ApiResponses ==
    { [ok |-> FALSE],
      [ok |-> TRUE, data |-> PyList(<<ClientRecord, ClientRecord>>)],
      [ok |-> TRUE, data |-> ClientRecord],
      [ok |-> TRUE, data |-> PyDict(<< <<F_data, PyList(<<PyList(<<ClientRecord>>)>>)>> >>)],
      [ok |-> TRUE, data |-> PyList(<<PyInt(7)>>)],
      [ok |-> TRUE, data |-> PyList(<<ClientRecord, PyStr(V_li)>>)],
      [ok |-> TRUE, data |-> PyStr(V_li)] }

\* "conditions = {column: value} if value else None"
conditions_of(column, value) ==
    IF value = PyNone \/ value = PyStr(<<>>) THEN PyNone
    ELSE PyDict(<< <<column, value>> >>)

\* main(): asyncio.run(init_server()) before mcp.run; init_database inserts the
\* sample rows when the employees table is empty.  The server process builds
\* no DataMasker of its own: it runs with the instance made at import.
InitServer ==
    /\ pc = "idle"
    /\ db = NoDatabase
    /\ ctor_arg = PyNone
    /\ \E existing \in {EmptyTables, ExistingTables} :
          db' = IF Len(existing.employees) = 0
                THEN [employees |-> SampleEmployees, projects |-> SampleProjects]
                ELSE existing
    /\ UNCHANGED <<settings, data_masker, masker, ctor_arg, pc, call, thread_vars, mvp_vars>>

\* the tools query_employees and query_projects and the resources
\* data://employees and data://projects: the JSON text of the masked rows
QueryTable ==
    /\ pc = "idle"
    /\ db # NoDatabase
    /\ \E table \in {"employees", "projects"}, value \in FilterArgs, limit \in Limits :
          LET column == IF table = "employees" THEN C_department ELSE C_status
              q == query_database(table, conditions_of(column, value), limit)
          IN  call' = [op |-> "query_" \o table, masked |-> <<q.results>>,
                       result |-> q.results]
    /\ pc' = "returned"
    /\ UNCHANGED <<settings, data_masker, masker, ctor_arg, db, thread_vars, mvp_vars>>

\* the tool fetch_api_data; fetched is whether the API answered a JSON
\* document.  fetch_from_api catches httpx.HTTPError only, and the tool
\* catches nothing: an exception of the masker ends the request.
FetchApiData ==
    /\ pc = "idle"
    /\ db # NoDatabase
    /\ \E response \in ApiResponses, limit \in {0} \cup Limits :
          call' =
            IF ~response.ok
            THEN [op |-> "fetch_api_data", masked |-> <<>>, fetched |-> FALSE,
                  raised |-> TRUE]
            ELSE LET data == CASE response.data.k = "list" -> mask_list(data_masker, response.data)
                               [] response.data.k = "dict" -> mask_dict(data_masker, response.data)
                               [] OTHER -> response.data
                 IN  IF data = AttributeError
                     THEN [op |-> "fetch_api_data", masked |-> <<>>, fetched |-> TRUE,
                           data |-> response.data, raised |-> TRUE]
                     ELSE [op |-> "fetch_api_data",
                           masked |-> IF response.data.k \in {"list", "dict"}
                                      THEN <<data>> ELSE <<>>,
                           fetched |-> TRUE,
                           data |-> response.data,
                           raised |-> FALSE,
                           result |-> IF data.k = "list" /\ limit # 0
                                      THEN PyList(Take(data.elems, limit)) ELSE data]
    /\ pc' = "returned"
    /\ UNCHANGED <<settings, data_masker, masker, ctor_arg, db, thread_vars, mvp_vars>>

\* the tool generate_summary; llm_ok is whether Ollama answers
GenerateSummary ==
    /\ pc = "idle"
    /\ db # NoDatabase
    /\ \E template_name \in TemplateNames, data \in ParsedData, extra_vars \in ParsedExtra,
          llm_ok \in BOOLEAN :
          call' =
            IF ~data.ok \/ (extra_vars.given /\ ~extra_vars.ok)
            THEN [op |-> "generate_summary", masked |-> <<>>, sent |-> FALSE,
                  result |-> "error: invalid JSON"]
            ELSE LET variables0 == << <<"data", data.value>> >>
                     variables1 == IF extra_vars.given
                                   THEN kwargs_update(variables0, extra_vars.value)
                                   ELSE variables0
                     variables ==
                         CASE template_name = "project_status" ->
                                  kwargs_setdefault(
                                      kwargs_setdefault(variables1, "current_date", Today),
                                      "projects", data.value)
                           [] template_name = "employee_analysis" ->
                                  kwargs_setdefault(
                                      kwargs_setdefault(variables1, "employees", data.value),
                                      "department", PyStr(<<"a", "l", "l">>))
                           [] OTHER -> variables1
                     r == render(template_name, variables)
                 IN  IF r.raised # "no"
                     THEN [op |-> "generate_summary", masked |-> <<>>, sent |-> FALSE,
                           result |-> "error: ValueError"]
                     ELSE [op |-> "generate_summary", masked |-> <<>>, sent |-> TRUE,
                           prompt |-> r.prompt,
                           result |-> IF llm_ok THEN "summary" ELSE "error: generation failed"]
    /\ pc' = "returned"
    /\ UNCHANGED <<settings, data_masker, masker, ctor_arg, db, thread_vars, mvp_vars>>

\* the tool answer_question
AnswerQuestion ==
    /\ pc = "idle"
    /\ db # NoDatabase
    /\ \E question \in Questions, data_source_type \in DataSourceTypes,
          filters \in ParsedFilters, llm_ok \in BOOLEAN :
          call' =
            IF filters.given /\ ~filters.ok
            THEN [op |-> "answer_question", masked |-> <<>>, sent |-> FALSE,
                  result |-> "error: cannot answer"]
            ELSE IF data_source_type \notin {"employees", "projects"}
            THEN [op |-> "answer_question", masked |-> <<>>, sent |-> FALSE,
                  result |-> "error: unsupported data source"]
            ELSE LET conditions == IF filters.given THEN filters.value ELSE PyNone
                     q == query_database(data_source_type, conditions, 100)
                 IN  IF q.raised
                     THEN [op |-> "answer_question", masked |-> <<>>, sent |-> FALSE,
                           result |-> "error: cannot answer"]
                     ELSE LET r == render("qa_with_context",
                                          << <<"context_data", q.results>>,
                                             <<"question", question>> >>)
                          IN  IF r.raised # "no"
                              THEN [op |-> "answer_question", masked |-> <<q.results>>,
                                    sent |-> FALSE, result |-> "error: cannot answer"]
                              ELSE [op |-> "answer_question", masked |-> <<q.results>>,
                                    sent |-> TRUE, prompt |-> r.prompt,
                                    result |-> IF llm_ok THEN "answer"
                                               ELSE "error: cannot answer"]
    /\ pc' = "returned"
    /\ UNCHANGED <<settings, data_masker, masker, ctor_arg, db, thread_vars, mvp_vars>>

\* the prompts summarize_employees and summarize_projects: the rendered prompt
\* is handed to the client for the language model
SummarizePrompt ==
    /\ pc = "idle"
    /\ db # NoDatabase
    /\ \E table \in {"employees", "projects"}, value \in FilterArgs :
          LET column == IF table = "employees" THEN C_department ELSE C_status
              q == query_database(table, conditions_of(column, value), 100)
              r == IF table = "employees"
                   THEN render("employee_analysis",
                               << <<"department",
                                    IF value = PyNone \/ value = PyStr(<<>>)
                                    THEN PyStr(<<"a", "l", "l">>) ELSE value>>,
                                  <<"employees", q.results>> >>)
                   ELSE render("project_status",
                               << <<"projects", q.results>>, <<"current_date", Today>> >>)
          IN  call' = [op |-> "summarize_" \o table, masked |-> <<q.results>>,
                       sent |-> TRUE, prompt |-> r.prompt, result |-> "prompt"]
    /\ pc' = "returned"
    /\ UNCHANGED <<settings, data_masker, masker, ctor_arg, db, thread_vars, mvp_vars>>

\* a direct call of prompt_library.render(template_name, **kwargs)
PromptLibraryRender ==
    /\ pc = "idle"
    /\ \E template_name \in TemplateNames, kwargs \in RenderKwargs :
          call' = [op |-> "PromptLibrary.render", template_name |-> template_name,
                   kwargs |-> kwargs, result |-> render(template_name, kwargs)]
    /\ pc' = "returned"
    /\ UNCHANGED <<settings, data_masker, masker, ctor_arg, db, thread_vars, mvp_vars>>

Next ==
    \/ Construct
    \/ MaskValue
    \/ MaskDict
    \/ MaskList
    \/ MaskEmail
    \/ MaskPhone
    \/ MaskCreditCard
    \/ MaskSsn
    \/ MaskGeneric
    \/ Return
    \/ InitServer
    \/ QueryTable
    \/ FetchApiData
    \/ GenerateSummary
    \/ AnswerQuestion
    \/ SummarizePrompt
    \/ PromptLibraryRender

Spec == Init /\ [][Next]_vars

(***************************************************************************)
(* Concurrent calls of data_masker.mask_dict.  Each call has its own       *)
(* activation record (result, the position of the loop over data.items()); *)
(* the masker instance is shared.  A step is one turn of the loop.         *)
(***************************************************************************)
\* the records the threads hand to mask_dict
ThreadRecords ==
    { PyDict(<< <<F_email, PyStr(V_li)>>, <<F_name, PyStr(V_Wang)>> >>),
      PyDict(<< <<F_phone, PyStr(V_phone)>> >>),
      PyDict(<< <<F_name, PyList(<<PyStr(V_Wang)>>)>>, <<F_email, PyNone>>,
                <<F_ssn, PyStr(V_ssn)>> >>) }

\* the activation record that holds the local variables of thread t's call:
\* "result = {}" makes a dict of the call's own
frame_shared(t) == 1

frame_of(t) == t

\* thread t calls data_masker.mask_dict(data): result = {}, the loop starts
ThreadCall ==
    /\ \E t \in Threads :
          /\ threads[t].pc = "idle"
          /\ \E data \in ThreadRecords :
                threads' = [threads EXCEPT ![t] = [pc |-> "loop", data |-> data]]
          /\ locals' = [locals EXCEPT ![frame_of(t)] = [i |-> 1, result |-> <<>>]]
    /\ UNCHANGED <<settings, data_masker, masker, ctor_arg, db, pc, call, mvp_vars>>

\* one turn of the loop: result[key] = the masked value of the next item
ThreadStep ==
    /\ \E t \in Threads :
          /\ threads[t].pc = "loop"
          /\ LET frame == locals[frame_of(t)]
                 data == threads[t].data
             IN  /\ frame.i <= Len(data.pairs)
                 /\ locals' = [locals EXCEPT ![frame_of(t)] =
                        [i |-> frame.i + 1,
                         result |-> Append(frame.result,
                             mask_dict(data_masker, PyDict(<<data.pairs[frame.i]>>)).pairs[1])]]
    /\ UNCHANGED <<settings, data_masker, masker, ctor_arg, db, pc, call, threads, mvp_vars>>

\* the loop is over: return result
ThreadReturn ==
    /\ \E t \in Threads :
          /\ threads[t].pc = "loop"
          /\ locals[frame_of(t)].i > Len(threads[t].data.pairs)
          /\ threads' = [threads EXCEPT ![t] =
                 [pc |-> "done", data |-> threads[t].data,
                  result |-> PyDict(locals[frame_of(t)].result)]]
    /\ UNCHANGED <<settings, data_masker, masker, ctor_arg, db, pc, call, locals, mvp_vars>>

\* the caller takes the result
ThreadTake ==
    /\ \E t \in Threads :
          /\ threads[t].pc = "done"
          /\ threads' = [threads EXCEPT ![t] = IdleThread]
    /\ UNCHANGED <<settings, data_masker, masker, ctor_arg, db, pc, call, locals, mvp_vars>>

NextThreads ==
    \/ ThreadCall
    \/ ThreadStep
    \/ ThreadReturn
    \/ ThreadTake

SpecThreads == Init /\ [][NextThreads]_vars

(***************************************************************************)
(* The console application (src/src/model.py, src/src/presenter.py,        *)
(* src/src/view.py).  A text is a sequence of characters; the full-width   *)
(* stops U+3002, U+FF01 and U+FF1F are written "u3002", "uFF01", "uFF1F".  *)
(***************************************************************************)
\* str.split(sep) from position i, the piece in progress starting at start
RECURSIVE split_on(_, _, _, _)
split_on(s, sep, start, i) ==
    IF i > Len(s) THEN <<Slice(s, start, Len(s))>>
    ELSE IF s[i] = sep THEN <<Slice(s, start, i - 1)>> \o split_on(s, sep, i + 1, i + 1)
    ELSE split_on(s, sep, start, i + 1)

\* len(s.split()): the number of runs of characters that are not whitespace
word_count(s) ==
    Cardinality({ i \in 1..Len(s) :
        s[i] \notin Whitespace /\ (i = 1 \/ s[i - 1] \in Whitespace) })

\* ". ".join(parts)
RECURSIVE join_stop(_)
join_stop(parts) ==
    IF Len(parts) = 0 THEN <<>>
    ELSE IF Len(parts) = 1 THEN parts[1]
    ELSE parts[1] \o <<".", " ">> \o join_stop(Tail(parts))

\* AIService.generate_summary
AIService_generate_summary(text) ==
    IF Len(text) = 0 \/ Len(strip(text)) = 0 THEN <<>>
    ELSE LET replaced == [i \in 1..Len(text) |->
                            IF text[i] \in {"u3002", "uFF01", "uFF1F"} THEN "." ELSE text[i]]
             pieces == split_on(replaced, ".", 1, 1)
             stripped == [i \in 1..Len(pieces) |-> strip(pieces[i])]
             sentences == SelectSeq(stripped, LAMBDA x : Len(x) > 0)
         IN  IF Len(sentences) <= 2 THEN strip(text)
             ELSE LET key_sentences == <<sentences[1], sentences[2], sentences[Len(sentences)]>>
                      summary == join_stop(key_sentences)
                  IN  IF summary[Len(summary)] = "." THEN summary ELSE summary \o <<".">>

\* the SummaryData that add_summary builds; compression_ratio is the quotient
\* summary_words / original_words kept as its two terms, 1.0 as <<1, 1>>
SummaryData_fields_swapped(original_text, summary, now) ==
    LET original_words == word_count(original_text)
        summary_words == word_count(summary)
    IN  [original_text |-> summary,
         summary |-> original_text,
         created_at |-> now,
         word_count |-> summary_words,
         compression_ratio |-> IF original_words > 0
                               THEN <<summary_words, original_words>> ELSE <<1, 1>>]

SummaryData(original_text, summary, now) ==
    LET original_words == word_count(original_text)
        summary_words == word_count(summary)
    IN  [original_text |-> original_text,
         summary |-> summary,
         created_at |-> now,
         word_count |-> summary_words,
         compression_ratio |-> IF original_words > 0
                               THEN <<summary_words, original_words>> ELSE <<1, 1>>]

\* SummaryModel.add_summary: self._summaries after the call
add_summary_at_front(self, original_text, summary, now) ==
    <<SummaryData(original_text, summary, now)>> \o self

add_summary(self, original_text, summary, now) ==
    Append(self, SummaryData(original_text, summary, now))

\* SummaryModel.get_all_summaries: a copy of the list
get_all_summaries(self) == self

\* SummaryModel.get_latest_summary
get_latest_summary_first(self) ==
    IF Len(self) > 0 THEN self[1] ELSE PyNone

get_latest_summary(self) ==
    IF Len(self) > 0 THEN self[Len(self)] ELSE PyNone

\* SummaryModel.clear_summaries: self._summaries after the call
clear_summaries(self) == <<>>

\* the texts given to the application: empty, blank, and texts of one, three
\* and four sentences
T_space == <<" ">>

T_blank == <<"\n", "\t">>

T_word == <<"H", "i">>

T_abc == <<"A", ".", "B", ".", "C">>

T_four == <<"a", " ", "b", "u3002", " ", "c", "uFF01", "d", " ", "e", ".", " ", "f">>

T_dots == <<".", ".", ".">>

Texts == { <<>>, T_space, T_blank, T_word, T_abc, T_four, T_dots }

\* the text arguments of SummaryPresenter.generate_summary: None or a text
TextArgs == { PyNone } \cup { PyStr(t) : t \in Texts \ {T_abc} }

\* the arguments given to add_summary: original_text and summary
AddSummaryArgs == { <<<<>>, T_word>>, <<T_four, T_word>> }

\* a view: the text get_input_text returns and the methods that raise
View(input, raises) == [input |-> input, raises |-> raises]

\* the calls of generate_summary: the text argument, the view and the AI
\* service of the presenter (the default AIService, or an injected one that
\* returns "" or raises)
GenerateSummaryCalls ==
    { [text |-> text, view |-> View(<<>>, {}), ai_service |-> "AIService"] :
          text \in TextArgs }
    \cup { [text |-> PyNone, view |-> View(input, {}), ai_service |-> "AIService"] :
               input \in { T_blank, T_four } }
    \cup { [text |-> text, view |-> View(T_four, {method}), ai_service |-> "AIService"] :
               text \in { PyNone, PyStr(<<>>), PyStr(T_word) },
               method \in { "get_input_text", "display_error", "display_summary" } }
    \cup { [text |-> PyStr(T_word), view |-> View(<<>>, raises), ai_service |-> ai_service] :
               raises \in { {}, {"display_error"} },
               ai_service \in { "returns_empty", "raises" } }

\* "not text or not text.strip()" (presenter.py:47)
is_blank_empty_only(text) == Len(text) = 0

is_blank(text) == Len(text) = 0 \/ Len(strip(text)) = 0

\* a view method is called: the call is recorded, and it raises or returns
view_call(view, method, arg) == [method |-> method, arg |-> arg, raised |-> method \in view.raises]

\* the except clause of generate_summary: display_error, then return False;
\* an exception of display_error leaves the method
generate_summary_except(view, out) ==
    LET c == view_call(view, "display_error", "error while generating")
    IN  [out EXCEPT !.view_calls = Append(out.view_calls, c),
                    !.result = IF c.raised THEN "raise" ELSE "False"]

\* SummaryPresenter.generate_summary: the result ("True", "False", or "raise"
\* when an exception leaves the method), the calls made on the view and on the
\* AI service, and self._model._summaries after the call
SummaryPresenter_generate_summary(self, text_arg, view, ai_service, now) ==
    LET out0 == [result |-> "none", view_calls |-> <<>>, ai_calls |-> <<>>,
                 summaries |-> self, added |-> FALSE, data |-> PyNone]
        c_input == view_call(view, "get_input_text", "")
        out1 == IF text_arg = PyNone
                THEN [out0 EXCEPT !.view_calls = Append(out0.view_calls, c_input)]
                ELSE out0
        text == IF text_arg = PyNone THEN view.input ELSE text_arg.s
    IN  IF text_arg = PyNone /\ c_input.raised THEN generate_summary_except(view, out1)
        ELSE IF is_blank(text)
        THEN LET c == view_call(view, "display_error", "invalid text")
                 out2 == [out1 EXCEPT !.view_calls = Append(out1.view_calls, c)]
             IN  IF c.raised THEN generate_summary_except(view, out2)
                 ELSE [out2 EXCEPT !.result = "False"]
        ELSE LET out2 == [out1 EXCEPT !.ai_calls = <<text>>]
                 summary == IF ai_service = "AIService"
                            THEN AIService_generate_summary(text) ELSE <<>>
             IN  IF ai_service = "raises" THEN generate_summary_except(view, out2)
                 ELSE IF Len(summary) = 0
                 THEN LET c == view_call(view, "display_error", "no summary")
                          out3 == [out2 EXCEPT !.view_calls = Append(out2.view_calls, c)]
                      IN  IF c.raised THEN generate_summary_except(view, out3)
                          ELSE [out3 EXCEPT !.result = "False"]
                 ELSE LET summaries == add_summary(self, text, summary, now)
                          data == SummaryData(text, summary, now)
                          c == view_call(view, "display_summary", data)
                          out3 == [out2 EXCEPT !.summaries = summaries,
                                               !.added = TRUE,
                                               !.data = data,
                                               !.view_calls = Append(out2.view_calls, c)]
                      IN  IF c.raised THEN generate_summary_except(view, out3)
                          ELSE [out3 EXCEPT !.result = "True"]

\* model.add_summary(original_text, summary); datetime.now() reads the clock,
\* which may have advanced since the last reading
AddSummary ==
    /\ pc = "idle"
    /\ Len(log) < MaxOps
    /\ \E args \in AddSummaryArgs, tick \in {0, 1} :
          LET original_text == args[1]
              summary == args[2]
              now == clock + tick
              data == SummaryData(original_text, summary, now)
          IN  /\ _summaries' = add_summary(_summaries, original_text, summary, now)
              /\ clock' = now
              /\ log' = Append(log, [op |-> "add_summary", data |-> data])
              /\ call' = [op |-> "add_summary", result |-> data]
    /\ pc' = "returned"
    /\ UNCHANGED <<settings, data_masker, masker, ctor_arg, db, thread_vars>>

\* model.clear_summaries()
ClearSummaries ==
    /\ pc = "idle"
    /\ Len(log) < MaxOps
    /\ _summaries' = clear_summaries(_summaries)
    /\ log' = Append(log, [op |-> "clear_summaries"])
    /\ call' = [op |-> "clear_summaries"]
    /\ pc' = "returned"
    /\ UNCHANGED <<settings, data_masker, masker, ctor_arg, db, thread_vars, clock>>

\* model.get_all_summaries()
GetAllSummaries ==
    /\ pc = "idle"
    /\ call' = [op |-> "get_all_summaries", result |-> get_all_summaries(_summaries)]
    /\ pc' = "returned"
    /\ UNCHANGED <<settings, data_masker, masker, ctor_arg, db, thread_vars, mvp_vars>>

\* model.get_latest_summary()
GetLatestSummary ==
    /\ pc = "idle"
    /\ call' = [op |-> "get_latest_summary", result |-> get_latest_summary(_summaries)]
    /\ pc' = "returned"
    /\ UNCHANGED <<settings, data_masker, masker, ctor_arg, db, thread_vars, mvp_vars>>

\* AIService.generate_summary(text)
AIServiceGenerateSummary ==
    /\ pc = "idle"
    /\ \E text \in Texts :
          call' = [op |-> "AIService.generate_summary", text |-> text,
                   result |-> AIService_generate_summary(text)]
    /\ pc' = "returned"
    /\ UNCHANGED <<settings, data_masker, masker, ctor_arg, db, thread_vars, mvp_vars>>

\* presenter.generate_summary(text), the presenter built on the view and the
\* AI service; before is the history when the call starts
PresenterGenerateSummary ==
    /\ pc = "idle"
    /\ \E c \in GenerateSummaryCalls, tick \in {0, 1} :
          LET text == c.text
              view == c.view
              ai_service == c.ai_service
              now == clock + tick
              out == SummaryPresenter_generate_summary(_summaries, text, view, ai_service, now)
          IN  /\ out.added => Len(log) < MaxOps
              /\ _summaries' = out.summaries
              /\ clock' = IF out.added THEN now ELSE clock
              /\ log' = IF out.added
                        THEN Append(log, [op |-> "add_summary", data |-> out.data])
                        ELSE log
              /\ call' = [op |-> "generate_summary", text |-> text, view |-> view,
                          ai_service |-> ai_service, before |-> _summaries,
                          result |-> out.result, view_calls |-> out.view_calls,
                          ai_calls |-> out.ai_calls]
    /\ pc' = "returned"
    /\ UNCHANGED <<settings, data_masker, masker, ctor_arg, db, thread_vars>>

\* presenter.show_history(): the view gets a copy of the history
ShowHistory ==
    /\ pc = "idle"
    /\ call' = [op |-> "show_history",
                view_calls |-> <<[method |-> "display_history",
                                  arg |-> get_all_summaries(_summaries)]>>]
    /\ pc' = "returned"
    /\ UNCHANGED <<settings, data_masker, masker, ctor_arg, db, thread_vars, mvp_vars>>

\* presenter.clear_history()
ClearHistory ==
    /\ pc = "idle"
    /\ Len(log) < MaxOps
    /\ _summaries' = clear_summaries(_summaries)
    /\ log' = Append(log, [op |-> "clear_summaries"])
    /\ call' = [op |-> "clear_history",
                view_calls |-> <<[method |-> "display_message", arg |-> "history cleared"]>>]
    /\ pc' = "returned"
    /\ UNCHANGED <<settings, data_masker, masker, ctor_arg, db, thread_vars, clock>>

\* presenter.get_summary_count()
GetSummaryCount ==
    /\ pc = "idle"
    /\ call' = [op |-> "get_summary_count", result |-> Len(get_all_summaries(_summaries))]
    /\ pc' = "returned"
    /\ UNCHANGED <<settings, data_masker, masker, ctor_arg, db, thread_vars, mvp_vars>>

NextMvp ==
    \/ AddSummary
    \/ ClearSummaries
    \/ GetAllSummaries
    \/ GetLatestSummary
    \/ AIServiceGenerateSummary
    \/ PresenterGenerateSummary
    \/ ShowHistory
    \/ ClearHistory
    \/ GetSummaryCount
    \/ Return

\* main(): the application imports no settings; they stay at their defaults
InitMvp ==
    /\ Init
    /\ settings.enable_data_masking
    /\ settings.masked_fields = DefaultMaskedFields

SpecMvp == InitMvp /\ [][NextMvp]_vars

(***************************************************************************)
(* Properties.                                                             *)
(***************************************************************************)
\* a call of the masking engine has returned
MaskCallReturned == pc = "returned" /\ call.op \in {"mask_value", "mask_dict", "mask_list"}

\* the input of the returned call
CallInput == IF call.op = "mask_value" THEN call.value ELSE call.data

\* some non-null scalar leaf of v_in under a sensitive key stands unchanged at
\* the same place of v_out (key: the nearest key above the value)
RECURSIVE LeaksLeaf(_, _, _, _)
LeaksLeaf(self, key, v_in, v_out) ==
    CASE v_in.k = "dict" ->
            /\ v_out.k = "dict"
            /\ \E i \in 1..Len(v_in.pairs) :
                  /\ i <= Len(v_out.pairs)
                  /\ LeaksLeaf(self, v_in.pairs[i][1], v_in.pairs[i][2], v_out.pairs[i][2])
      [] v_in.k = "list" ->
            /\ v_out.k = "list"
            /\ \E i \in 1..Len(v_in.elems) :
                  /\ i <= Len(v_out.elems)
                  /\ LeaksLeaf(self, key, v_in.elems[i], v_out.elems[i])
      [] v_in.k = "null" -> FALSE
      [] OTHER ->
            /\ should_mask(self, lower(key))
            /\ py_str(v_in) # <<>>
            /\ v_out = v_in

\* C1: with masking enabled, the output of mask_dict and of mask_list returns
\* no non-null scalar leaf that sits under a sensitive key in clear, whatever
\* mappings and sequences are nested above it.
C1_NoSensitiveLeafInClear ==
    (MaskCallReturned /\ call.op \in {"mask_dict", "mask_list"} /\ masker.enabled)
        => ~LeaksLeaf(masker, <<>>, call.data, call.result)

\* the data pieces of a rendered prompt
PromptData(prompt) ==
    { prompt[i].value : i \in { j \in 1..Len(prompt) : prompt[j].seg = "json" } }

\* C2: on every server path that renders a prompt for the language model, the
\* data put into the template is an output of the masker made while the
\* request was served (stated for masking enabled, where passing the masker
\* redacts).
C2_PromptDataPassedMasker ==
    (pc = "returned"
        /\ data_masker.enabled
        /\ call.op \in {"generate_summary", "answer_question",
                        "summarize_employees", "summarize_projects"}
        /\ call.sent)
        => \A data \in PromptData(call.prompt) :
               \E i \in 1..Len(call.masked) : call.masked[i] = data

\* v_out has the shape of v_in: same keys in the same order, same sequence
\* lengths, mappings and sequences kept, a changed scalar leaf is a string
RECURSIVE SameShape(_, _)
SameShape(v_in, v_out) ==
    CASE v_in.k = "dict" ->
            /\ v_out.k = "dict"
            /\ Len(v_out.pairs) = Len(v_in.pairs)
            /\ \A i \in 1..Len(v_in.pairs) :
                  /\ v_out.pairs[i][1] = v_in.pairs[i][1]
                  /\ SameShape(v_in.pairs[i][2], v_out.pairs[i][2])
      [] v_in.k = "list" ->
            /\ v_out.k = "list"
            /\ Len(v_out.elems) = Len(v_in.elems)
            /\ \A i \in 1..Len(v_in.elems) : SameShape(v_in.elems[i], v_out.elems[i])
      [] OTHER -> v_out = v_in \/ v_out.k = "str"

\* every fragment of the masker is a non-empty string
FragmentsNonEmpty(self) ==
    \A i \in 1..Len(self.masked_fields) : self.masked_fields[i] # <<>>

\* C3: mask_dict returns a structure of the same shape as its input (stated
\* for maskers without an empty fragment, which makes every field sensitive).
C3_ShapePreserved ==
    (MaskCallReturned /\ call.op = "mask_dict" /\ FragmentsNonEmpty(masker))
        => SameShape(call.data, call.result)

\* some key of v contains a fragment of the masker
RECURSIVE HasSensitiveKey(_, _)
HasSensitiveKey(self, v) ==
    CASE v.k = "dict" ->
            \E i \in 1..Len(v.pairs) :
                \/ should_mask(self, lower(v.pairs[i][1]))
                \/ HasSensitiveKey(self, v.pairs[i][2])
      [] v.k = "list" -> \E i \in 1..Len(v.elems) : HasSensitiveKey(self, v.elems[i])
      [] OTHER -> FALSE

\* C4: with masking disabled, mask_value, mask_dict and mask_list return a
\* value equal to their input.
C4_DisabledIsIdentity ==
    (MaskCallReturned /\ ~masker.enabled) => call.result = CallInput

\* C4 witness: a disabled masker returned a record that has a sensitive key
\* with a string under it
C4_Witness ==
    /\ MaskCallReturned
    /\ ~masker.enabled
    /\ call.op = "mask_dict"
    /\ call.data = PyDict(<<<<F_email, PyStr(V_Wang)>>, <<F_name, PyStr(V_li)>>>>)
    /\ HasSensitiveKey(masker, call.data)
    /\ call.result = call.data

\* C5: with masking enabled and no fragment configured (an empty list given to
\* the constructor, or an empty masked_fields setting), mask_dict returns every
\* record unchanged.
C5_NoFragmentNoMasking ==
    (MaskCallReturned /\ call.op = "mask_dict" /\ masker.enabled
        /\ \/ ctor_arg = PyList(<<>>)
           \/ ctor_arg = PyNone /\ settings.masked_fields = <<>>)
        => call.result = call.data

\* the fragments as they were configured: the strings of the constructor
\* argument, else the comma-separated pieces of the setting
ConfiguredFragments ==
    IF ctor_arg # PyNone
    THEN { ctor_arg.elems[i].s : i \in 1..Len(ctor_arg.elems) }
    ELSE { strip(f) : f \in Range(split(settings.masked_fields)) }

\* C6: with masking enabled, a field is masked exactly when its lowercased name
\* contains a configured fragment, letter case of the name and of the fragment
\* set aside.
C6_SensitiveIffFragmentAnyCase ==
    (MaskCallReturned /\ call.op = "mask_value" /\ masker.enabled
        /\ ctor_arg # PyList(<<>>)
        /\ call.value # PyNone /\ py_str(call.value) # <<>>)
        => ((call.result # call.value)
               <=> \E f \in ConfiguredFragments :
                       Contains(lower(f), lower(call.field_name)))

\* some non-null scalar leaf of v is governed by a name that holds no fragment
RECURSIVE HasPlainLeaf(_, _, _)
HasPlainLeaf(self, key, v) ==
    CASE v.k = "dict" ->
            \E i \in 1..Len(v.pairs) : HasPlainLeaf(self, v.pairs[i][1], v.pairs[i][2])
      [] v.k = "list" -> \E i \in 1..Len(v.elems) : HasPlainLeaf(self, key, v.elems[i])
      [] OTHER -> v # PyNone /\ ~should_mask(self, lower(key))

\* some non-null scalar leaf of v_in governed by a name that holds no fragment
\* is not found unchanged at the same place of v_out
RECURSIVE PlainLeafChanged(_, _, _, _)
PlainLeafChanged(self, key, v_in, v_out) ==
    CASE v_in.k = "dict" ->
            IF v_out.k = "dict" /\ Len(v_out.pairs) = Len(v_in.pairs)
            THEN \E i \in 1..Len(v_in.pairs) :
                     PlainLeafChanged(self, v_in.pairs[i][1], v_in.pairs[i][2],
                                      v_out.pairs[i][2])
            ELSE HasPlainLeaf(self, key, v_in)
      [] v_in.k = "list" ->
            IF v_out.k = "list" /\ Len(v_out.elems) = Len(v_in.elems)
            THEN \E i \in 1..Len(v_in.elems) :
                     PlainLeafChanged(self, key, v_in.elems[i], v_out.elems[i])
            ELSE HasPlainLeaf(self, key, v_in)
      [] OTHER -> v_in # PyNone /\ ~should_mask(self, lower(key)) /\ v_out # v_in

\* C7: with masking enabled, mask_dict returns every scalar leaf whose governing
\* field name holds no configured fragment unchanged in value and type, at
\* every depth, also under a sensitive ancestor key.
C7_NonSensitivePassthrough ==
    (MaskCallReturned /\ call.op = "mask_dict" /\ masker.enabled)
        => ~PlainLeafChanged(masker, <<>>, call.data, call.result)

\* v holds a null leaf
RECURSIVE HasNull(_)
HasNull(v) ==
    CASE v.k = "dict" -> \E i \in 1..Len(v.pairs) : HasNull(v.pairs[i][2])
      [] v.k = "list" -> \E i \in 1..Len(v.elems) : HasNull(v.elems[i])
      [] OTHER -> v = PyNone

\* every null leaf of v_in is null at the same place of v_out
RECURSIVE NullsKept(_, _)
NullsKept(v_in, v_out) ==
    CASE v_in.k = "dict" ->
            IF v_out.k = "dict" /\ Len(v_out.pairs) = Len(v_in.pairs)
            THEN \A i \in 1..Len(v_in.pairs) : NullsKept(v_in.pairs[i][2], v_out.pairs[i][2])
            ELSE ~HasNull(v_in)
      [] v_in.k = "list" ->
            IF v_out.k = "list" /\ Len(v_out.elems) = Len(v_in.elems)
            THEN \A i \in 1..Len(v_in.elems) : NullsKept(v_in.elems[i], v_out.elems[i])
            ELSE ~HasNull(v_in)
      [] v_in.k = "null" -> v_out = PyNone
      [] OTHER -> TRUE

\* C8: mask_value returns null for a null value whatever the field name and the
\* policy, and mask_dict leaves every null leaf null, directly under a key or
\* as a sequence element, also under a sensitive key (the mask_dict part stated
\* for maskers without an empty fragment).
C8_NullPassthrough ==
    /\ (MaskCallReturned /\ call.op = "mask_value" /\ call.value = PyNone)
           => call.result = PyNone
    /\ (MaskCallReturned /\ call.op = "mask_dict" /\ FragmentsNonEmpty(masker))
           => NullsKept(call.data, call.result)

\* the rules in the order the claim gives them, with their fragments
RuleOrder == <<"email", "phone", "credit_card", "ssn">>

RuleFragment ==
    [email |-> F_email, phone |-> F_phone, credit_card |-> F_credit_card, ssn |-> F_ssn]

\* rule i applies: its fragment is in the lowercased field name and its
\* pattern matches a prefix of the stringified value
RuleApplies(i, field_name, value) ==
    /\ Contains(RuleFragment[RuleOrder[i]], lower(field_name))
    /\ re_match(RuleOrder[i], py_str(value))

\* mask_value took the masking branch for the returned call
MaskedCall ==
    /\ MaskCallReturned
    /\ call.op = "mask_value"
    /\ masker.enabled
    /\ call.value # PyNone
    /\ should_mask(masker, lower(call.field_name))

\* C9: for a sensitive non-null scalar the strategy applied is that of the first
\* rule, in the order email, phone, credit_card, ssn, whose fragment is in the
\* lowercased field name and whose pattern matches a prefix of the value.
C9_FirstMatchingRuleWins ==
    MaskedCall =>
        \A i \in 1..Len(RuleOrder) :
            (/\ RuleApplies(i, call.field_name, call.value)
             /\ \A j \in 1..(i - 1) : ~RuleApplies(j, call.field_name, call.value))
                => call.result = PyStr(apply_mask_func(RuleOrder[i], py_str(call.value)))

\* C9 witness: under the field ssn_phone the value 123456789 satisfies the
\* phone rule and the ssn rule, and got the phone strategy
C9_Witness ==
    /\ MaskedCall
    /\ call.field_name = F_ssn_phone
    /\ call.value = PyStr(V_nine_digits)
    /\ RuleApplies(2, call.field_name, call.value)
    /\ RuleApplies(4, call.field_name, call.value)
    /\ call.result = PyStr(<<"1", "2", "*", "*", "*", "*", "*", "8", "9">>)

\* all of s but its first and last character is "*", and all of it when it has
\* at most two characters
EdgesOnly(s) ==
    /\ \A i \in 2..(Len(s) - 1) : s[i] = "*"
    /\ Len(s) <= 2 => \A i \in 1..Len(s) : s[i] = "*"

\* C10: for a sensitive field whose stringified value is prefix-matched by no
\* rule whose fragment is in the field name, mask_value returns the generic
\* strategy applied to the stringified value, never the value unmasked.
C10_GenericFallback ==
    (MaskedCall /\ \A i \in 1..Len(RuleOrder) :
                       ~RuleApplies(i, call.field_name, call.value))
        => /\ call.result = PyStr(_mask_generic(py_str(call.value)))
           /\ Len(call.result.s) = Len(py_str(call.value))
           /\ EdgesOnly(call.result.s)

\* C10 witness: under the field email the value x@y, which the email pattern
\* does not match, came back as x*y
C10_Witness ==
    /\ MaskedCall
    /\ call.field_name = F_email
    /\ call.value = PyStr(V_no_tld)
    /\ \A i \in 1..Len(RuleOrder) : ~RuleApplies(i, call.field_name, call.value)
    /\ call.result = PyStr(<<"x", "*", "y">>)

\* a call of the strategy op has returned
StrategyReturned(op) == pc = "returned" /\ call.op = op

\* the digit characters of s, in order
DigitsOf(s) == SelectSeq(s, LAMBDA c : c \in Digits)

\* s is a digit string that may hold separators
SeparatedDigits(s) == \A i \in 1..Len(s) : s[i] \in Digits \cup SeparatorClass

\* the last n elements of s, all of s when it is shorter
LastOf(s, n) == Slice(s, IF Len(s) > n THEN Len(s) - n + 1 ELSE 1, Len(s))

\* mask_value took the masking branch and rule i is the first that applies
RoutedTo(i) ==
    /\ MaskedCall
    /\ RuleApplies(i, call.field_name, call.value)
    /\ \A j \in 1..(i - 1) : ~RuleApplies(j, call.field_name, call.value)

\* C11: the email strategy returns a value without "@" unchanged; otherwise,
\* with the domain the part after the last "@" (a domain holds no "@"), the
\* output has the length of the input, the "@" and the domain are kept, a
\* local part longer than 2 keeps its first and last character around "*",
\* and a local part of at most 2 characters is all "*".
C11_EmailStrategy ==
    StrategyReturned("_mask_email") =>
        LET value == call.value
            result == call.result
        IN  IF \A i \in 1..Len(value) : value[i] # "@"
            THEN result = value
            ELSE LET at == CHOOSE i \in 1..Len(value) :
                               value[i] = "@" /\ \A j \in (i + 1)..Len(value) : value[j] # "@"
                     n == at - 1
                 IN  /\ Len(result) = Len(value)
                     /\ \A p \in at..Len(value) : result[p] = value[p]
                     /\ n > 2 => /\ result[1] = value[1]
                                 /\ result[n] = value[n]
                                 /\ \A p \in 2..(n - 1) : result[p] = "*"
                     /\ n <= 2 => \A p \in 1..n : result[p] = "*"

\* C11 witness: li@co.com, whose local part has 2 characters, came back as
\* **@co.com
C11_Witness ==
    /\ StrategyReturned("_mask_email")
    /\ call.value = V_li
    /\ call.result = <<"*", "*", "@", "c", "o", ".", "c", "o", "m">>

\* C12: for every value mask_value routes to the SSN strategy the output is
\* "***-**-" followed by the last 4 digits of the input: 11 characters, the
\* last 4 of them digits.
C12_SsnShape ==
    RoutedTo(4) =>
        LET digits == DigitsOf(py_str(call.value))
            result == call.result.s
        IN  /\ Len(result) = 11
            /\ result = <<"*", "*", "*", "-", "*", "*", "-">> \o LastOf(digits, 4)
            /\ \A p \in 8..11 : result[p] \in Digits

\* C13: the phone strategy turns a digit string with separators into its first
\* 2 digits, count-4 "*" and its last 2 digits (all "*" under 4 digits), and
\* for every value mask_value routes to it the output holds only the first two
\* and last two digits of the number and "*".
C13_PhoneStrategy ==
    /\ (StrategyReturned("_mask_phone") /\ SeparatedDigits(call.value)) =>
           LET digits == DigitsOf(call.value)
           IN  call.result = IF Len(digits) >= 4
                             THEN Slice(digits, 1, 2) \o Stars(Len(digits) - 4)
                                      \o LastOf(digits, 2)
                             ELSE Stars(Len(digits))
    /\ RoutedTo(2) =>
           LET digits == DigitsOf(py_str(call.value))
               result == call.result.s
           IN  /\ result = Slice(digits, 1, 2) \o Stars(Len(digits) - 4) \o LastOf(digits, 2)
               /\ \A p \in 1..Len(result) : result[p] \in Digits \cup {"*"}

\* C14: the credit card strategy turns a digit string with separators into
\* count-4 "*" and its last 4 digits (all "*" under 4 digits), and for every
\* string the digits of the output are among the last 4 digits of the input.
C14_CreditCardStrategy ==
    StrategyReturned("_mask_credit_card") =>
        LET digits == DigitsOf(call.value)
            kept == DigitsOf(call.result)
        IN  /\ SeparatedDigits(call.value) =>
                   call.result = IF Len(digits) >= 4
                                 THEN Stars(Len(digits) - 4) \o LastOf(digits, 4)
                                 ELSE Stars(Len(digits))
            /\ Len(kept) <= 4
            /\ Len(kept) <= Len(digits)
            /\ kept = LastOf(digits, Len(kept))

\* C14 witness: 1234-5678-9012-3456 came back as 12 "*" and 3456
C14_Witness ==
    /\ StrategyReturned("_mask_credit_card")
    /\ call.value = V_card
    /\ call.result = Stars(12) \o <<"3", "4", "5", "6">>

\* C15: the generic strategy keeps the length of every string; a string of at
\* most 2 characters becomes all "*"; a longer one keeps its first and last
\* character and has "*" in every interior position.
C15_GenericBoundary ==
    StrategyReturned("_mask_generic") =>
        LET value == call.value
            result == call.result
        IN  /\ Len(result) = Len(value)
            /\ Len(value) <= 2 => \A p \in 1..Len(value) : result[p] = "*"
            /\ Len(value) >= 3 => /\ result[1] = value[1]
                                  /\ result[Len(value)] = value[Len(value)]
                                  /\ \A p \in 2..(Len(value) - 1) : result[p] = "*"

\* C15 witness: the 2-character string ab came back as **
C15_Witness ==
    /\ StrategyReturned("_mask_generic")
    /\ call.value = <<"a", "b">>
    /\ call.result = <<"*", "*">>

\* C16: the masking engine is total: every call of mask_value, mask_dict and
\* mask_list on a well-formed structured value returns a value, also the calls
\* the program makes on the JSON document an API answered.
C16_EngineTotal ==
    /\ MaskCallReturned => call.result # AttributeError
    /\ (pc = "returned" /\ call.op = "fetch_api_data" /\ call.fetched) => ~call.raised

\* C17: no step of a call on the shared masker changes the masker's
\* configuration or the call's input, and whatever the interleaving of the
\* calls, a call that returns holds the result mask_dict gives for its own
\* input alone.
C17_Stateless ==
    [][ /\ data_masker' = data_masker
        /\ settings' = settings
        /\ \A t \in Threads :
              (threads[t].pc # "idle" /\ threads'[t].pc # "idle")
                  => threads'[t].data = threads[t].data
        /\ \A t \in Threads :
              threads'[t].pc = "done"
                  => threads'[t].result = mask_dict(data_masker, threads'[t].data) ]_vars

\* C17 witness: thread 1 returned the masked form of its record while thread 2
\* was inside the loop of its own call on another record
C17_Witness ==
    /\ threads[1].pc = "done"
    /\ threads[2].pc = "loop"
    /\ locals[2].i = 2
    /\ threads[1].data # threads[2].data
    /\ threads[1].result # threads[1].data
    /\ threads[1].result = mask_dict(data_masker, threads[1].data)

\* a call of op on the console application has returned
MvpReturned(op) == pc = "returned" /\ call.op = op

\* the records that the add_summary calls made since the last clear_summaries
\* call (or since creation) returned, in the order of the calls
AddedSinceClear ==
    LET clears == { i \in 1..Len(log) : log[i].op = "clear_summaries" }
        start == IF clears = {} THEN 0 ELSE CHOOSE i \in clears : \A j \in clears : j <= i
    IN  [j \in 1..(Len(log) - start) |-> log[start + j].data]

\* C18: get_all_summaries returns exactly the records added since the most
\* recent clear (or since creation), in insertion order; get_summary_count is
\* their number; right after a clear the history is empty.
C18_HistoryIsAddsSinceClear ==
    /\ MvpReturned("get_all_summaries") => call.result = AddedSinceClear
    /\ MvpReturned("get_summary_count") => call.result = Len(AddedSinceClear)
    /\ (MvpReturned("clear_summaries") \/ MvpReturned("clear_history"))
           => /\ get_all_summaries(_summaries) = <<>>
              /\ Len(get_all_summaries(_summaries)) = 0

\* C18 witness: after an add, a clear and another add, get_all_summaries
\* returned the one record added since the clear
C18_Witness ==
    /\ MvpReturned("get_all_summaries")
    /\ Len(log) = 3
    /\ log[1].op = "add_summary"
    /\ log[2].op = "clear_summaries"
    /\ log[3].op = "add_summary"
    /\ log[1].data # log[3].data
    /\ call.result = <<log[3].data>>

\* C19: get_latest_summary returns the record of the most recent add_summary
\* since the last clear, and None exactly when the history is empty.
C19_LatestIsLastAdded ==
    MvpReturned("get_latest_summary") =>
        /\ AddedSinceClear = <<>> => call.result = PyNone
        /\ AddedSinceClear # <<>> =>
               /\ call.result = AddedSinceClear[Len(AddedSinceClear)]
               /\ call.result # PyNone

\* C19 witness: after two adds of different records get_latest_summary
\* returned the second
C19_Witness ==
    /\ MvpReturned("get_latest_summary")
    /\ Len(AddedSinceClear) = 2
    /\ AddedSinceClear[1] # AddedSinceClear[2]
    /\ call.result = AddedSinceClear[2]

\* the text generate_summary works on: its argument, or what the view's
\* get_input_text returned
GivenText == IF call.text = PyNone THEN call.view.input ELSE call.text.s

\* generate_summary got an empty or whitespace-only text, as argument or from
\* the view
BlankTextGiven ==
    /\ MvpReturned("generate_summary")
    /\ call.text = PyNone => "get_input_text" \notin call.view.raises
    /\ \A i \in 1..Len(GivenText) : GivenText[i] \in Whitespace

\* the calls of method among the view calls of the returned call
ViewCalls(method) == SelectSeq(call.view_calls, LAMBDA c : c.method = method)

NonBlankTextGiven ==
    /\ MvpReturned("generate_summary")
    /\ call.ai_service = "AIService"
    /\ call.view.raises = {}
    /\ \E i \in 1..Len(GivenText) : GivenText[i] \notin Whitespace

\* C21: generate_summary with a non-blank text, the default AIService and a
\* view that does not fail returns True, calls display_summary exactly once,
\* with the newly stored record, never calls display_error, and leaves the
\* history one record longer, the old records in place and the new last
\* record holding that text.
C21_NonBlankTextStored ==
    NonBlankTextGiven =>
        /\ call.result = "True"
        /\ Len(ViewCalls("display_summary")) = 1
        /\ Len(_summaries) = Len(call.before) + 1
        /\ ViewCalls("display_summary")[1].arg = _summaries[Len(_summaries)]
        /\ ViewCalls("display_error") = <<>>
        /\ Len(get_all_summaries(_summaries)) = Len(get_all_summaries(call.before)) + 1
        /\ \A i \in 1..Len(call.before) : _summaries[i] = call.before[i]
        /\ _summaries[Len(_summaries)].original_text = GivenText

\* C21 witness: with one record in the history, generate_summary got a text
\* of four sentences, returned True and the history has a second record,
\* holding that text and a summary that differs from it
C21_Witness ==
    /\ NonBlankTextGiven
    /\ call.text = PyStr(T_four)
    /\ Len(call.before) = 1
    /\ call.result = "True"
    /\ Len(_summaries) = 2
    /\ _summaries[2].original_text = T_four
    /\ _summaries[2].summary # T_four

\* C22: AIService.generate_summary never returns a summary longer than its
\* text, and returns the empty string for an empty or blank text.
C22_SummaryNotLonger ==
    MvpReturned("AIService.generate_summary") =>
        /\ Len(call.result) <= Len(call.text)
        /\ (\A i \in 1..Len(call.text) : call.text[i] \in Whitespace) => call.result = <<>>

(***************************************************************************)
(* The prompt library.                                                     *)
(***************************************************************************)
\* the template text with every placeholder of a template variable replaced
\* by the supplied value
PlaceholdersReplaced(t, kwargs) ==
    [i \in 1..Len(t.template) |->
        LET piece == t.template[i]
        IN  IF piece.seg = "var" THEN rendered(piece.var, kwargs_get(kwargs, piece.var))
            ELSE piece]

RenderReturned == pc = "returned" /\ call.op = "PromptLibrary.render"

\* C23: PromptLibrary.render raises ValueError when the named template does
\* not exist or a variable of the template is missing from the arguments, and
\* otherwise returns the template text with every placeholder of every
\* template variable replaced by the supplied value (dicts and lists as JSON
\* text).
C23_RenderContract ==
    RenderReturned =>
        LET known == \E i \in 1..Len(templates) : templates[i].name = call.template_name
            t == templates[CHOOSE i \in 1..Len(templates) :
                               templates[i].name = call.template_name]
        IN  IF ~known \/ (\E v \in template_variables(t) : ~kwargs_has(call.kwargs, v))
            THEN call.result.raised = "ValueError"
            ELSE /\ call.result.raised = "no"
                 /\ call.result.prompt = PlaceholdersReplaced(t, call.kwargs)

(***************************************************************************)
(* Sequence elements.                                                      *)
(***************************************************************************)
\* the field k is sensitive for the masker
Sensitive(k) == masker.enabled /\ should_mask(masker, lower(k))

\* in result, every sequence of data that sits under a key holds, element by
\* element, the record mask_dict makes of a mapping and the scalar mask_value
\* makes of anything else under that key
RECURSIVE ElementsMasked(_, _)
ElementsMasked(data, result) ==
    /\ result.k = "dict"
    /\ Len(result.pairs) = Len(data.pairs)
    /\ \A i \in 1..Len(data.pairs) :
          LET k == data.pairs[i][1]
              value == data.pairs[i][2]
              out == result.pairs[i][2]
          IN  CASE value.k = "dict" -> ElementsMasked(value, out)
                [] value.k = "list" ->
                      /\ out.k = "list"
                      /\ Len(out.elems) = Len(value.elems)
                      /\ \A j \in 1..Len(value.elems) :
                            LET item == value.elems[j]
                                res == out.elems[j]
                            IN  IF item.k = "dict"
                                THEN /\ res = mask_dict(masker, item)
                                     /\ ElementsMasked(item, res)
                                ELSE /\ res = mask_value(masker, k, item)
                                     /\ (Sensitive(k) /\ item # PyNone)
                                            => res = PyStr(mask_by_pattern(lower(k),
                                                                           py_str(item), 1))
                      /\ \A j1, j2 \in 1..Len(value.elems) :
                            (value.elems[j1] = value.elems[j2])
                                => out.elems[j1] = out.elems[j2]
                [] OTHER -> TRUE

\* C24: inside a sequence stored under key k, every element that is a mapping
\* is masked as a record using its own keys and every other element as a
\* scalar under the outer field name k; under a sensitive k each non-null
\* non-mapping element becomes its masked string, element by element, and
\* equal elements get equal outputs.
C24_SequenceElements ==
    (pc = "returned" /\ call.op = "mask_dict") => ElementsMasked(call.data, call.result)

\* C24 witness: under the sensitive key email the sequence
\* ["li@co.com", {"email": "li@co.com"}, None, 7, "li@co.com"] came back with
\* both strings masked alike, the mapping masked as a record, None kept and 7
\* as the string "*"
C24_Witness ==
    /\ pc = "returned" /\ call.op = "mask_dict"
    /\ call.data \in SequenceRecords
    /\ call.data.pairs[1][1] = F_email
    /\ Sensitive(F_email)
    /\ LET out == call.result.pairs[1][2].elems
       IN  /\ out[1] = PyStr(<<"*", "*", "@", "c", "o", ".", "c", "o", "m">>)
           /\ out[5] = out[1]
           /\ out[2] = PyDict(<<<<F_email, out[1]>>>>)
           /\ out[3] = PyNone
           /\ out[4] = PyStr(<<"*">>)

(***************************************************************************)
(* Failure of the presenter's generate_summary.                            *)
(***************************************************************************)
\* C25: whenever SummaryPresenter.generate_summary returns False (blank input,
\* empty summary, or an exception caught by the handler), the list returned by
\* get_all_summaries is the same as before the call.
C25_FailureKeepsHistory ==
    (MvpReturned("generate_summary") /\ call.result = "False")
        => get_all_summaries(_summaries) = get_all_summaries(call.before)

(***************************************************************************)
(* The masked value of a sensitive field.                                  *)
(***************************************************************************)
\* C26: with masking enabled, for every sensitive field and every non-null
\* scalar whose string form is not empty, mask_value returns a string that
\* holds at least one "*" and the clear value is never returned verbatim,
\* whichever strategy is selected.
C26_NeverVerbatim ==
    (MaskedCall /\ py_str(call.value) # <<>>)
        => /\ call.result.k = "str"
           /\ \E p \in 1..Len(call.result.s) : call.result.s[p] = "*"
           /\ call.result.s # py_str(call.value)

\* C26 as amended: the returned string holds at least one "*" (it is the clear
\* value itself only when the clear value already holds a "*").
C26_MaskedHasStar ==
    (MaskedCall /\ py_str(call.value) # <<>>)
        => /\ call.result.k = "str"
           /\ \E p \in 1..Len(call.result.s) : call.result.s[p] = "*"
           /\ call.result.s = py_str(call.value)
                  => \E p \in 1..Len(py_str(call.value)) : py_str(call.value)[p] = "*"

\* C26 witness: under the field password the value a*b went through the
\* generic strategy and came back as a*b
C26_Witness ==
    /\ MaskedCall
    /\ call.field_name = F_password
    /\ call.value = PyStr(V_starred)
    /\ call.result = PyStr(V_starred)

====
